---- MODULE Spec2Model ----
(***************************************************************************)
(* tweakcc: the patch orchestrator (applyCustomization / trackPatch) and   *)
(* the backup/restore guardian (startupCheck, backupClijs,                 *)
(* backupNativeBinary, restoreClijsFromBackup,                             *)
(* restoreNativeBinaryFromBackup, replaceFileBreakingHardLinks), and, on   *)
(* their own, the patch-level functions: writeThemes,                      *)
(* writeTweakccSummaryCheck, the delimiter scanners, the anchor lookups    *)
(* and the fragments synthesized around configuration values.              *)
(*                                                                         *)
(* A file's content is a record                                            *)
(*   [ver, prompts, edits, partial, react]                                 *)
(* ver     : the Claude Code build the text comes from (0: no file),       *)
(* prompts : the system-prompt customisation has been spliced in,          *)
(* edits   : the patch functions whose splice the text contains, in the    *)
(*           order they were spliced,                                      *)
(* partial : the file holds only a prefix of that text,                    *)
(* react   : the React variable the spliced code refers to (0: none).      *)
(***************************************************************************)
EXTENDS Integers, Sequences, FiniteSets, TLC

\* Number of Claude Code releases the environment can install.
MaxVer == 3

\* Longest run of arbitrary characters in a text handed to a scanner or to
\* an anchor lookup, and longest configuration value.
MaxBody == 4

\* Longest list of themes handed to the theme mapping.
MaxThemes == 3

VARIABLES
  kind,         \* "npm" (cliPath set) or "native" (nativeInstallationPath set)
  ccVer,        \* the release currently installed by the environment
  live,         \* the live artifact: cli.js, or the native binary
  cliBackup,    \* CLIJS_BACKUP_FILE
  nativeBackup, \* NATIVE_BINARY_BACKUP_FILE
  configFile,   \* CONFIG_FILE: [ccVersion, changesApplied]
  settings,     \* config.settings: [themes, toolsets] (non-empty lists or not)
  promptFiles,  \* the system-prompt markdown files: "default", "custom", "malformed"
  pc,           \* position of the running tweakcc process ("idle": none runs)
  mode,         \* the command line of the running process
  op,           \* the operation in progress: "none", "apply", "restore"
  info,         \* StartupCheckInfo returned by startupCheck
  pending,      \* newContent argument of replaceFileBreakingHardLinks
  content,      \* applyCustomization: the session buffer
  last,         \* the last patchFn() call: [ret, work, threw]
  results,      \* applyCustomization: patchResults
  items,        \* applyCustomization: items
  stepIdx,      \* next entry of the registry
  sessCfg,      \* the config argument of applyCustomization
  outcome,      \* how the last applyCustomization / restore call ended
  startBuf,     \* history: the buffer read at the start of the session
  firstBuf,     \* history: the buffer handed to the first tracked step
  captureFailed, \* history: a snapshot capture failed in this process
  reactVarCache, \* the module-level memo of getReactVar (0: null)
  disk,         \* a directory seen by replaceFileBreakingHardLinks on its own
  rf,           \* that call of replaceFileBreakingHardLinks: position, locals
  runs,         \* two applyCustomization runs on one pristine text: inputs, outputs
  fcall         \* one patch-level function called on its own: arguments, locals

vars == << kind, ccVer, live, cliBackup, nativeBackup, configFile, settings,
           promptFiles, pc, mode, op, info, pending, content, last, results,
           items, stepIdx, sessCfg, outcome, startBuf, firstBuf, captureFailed,
           reactVarCache, disk, rf, runs, fcall >>

\* What the tool's own run leaves alone: the variables of the specifications
\* of single functions.
lab == << disk, rf, runs, fcall >>

\* The variables of the tool's own run.
tool == << kind, ccVer, live, cliBackup, nativeBackup, configFile, settings,
           promptFiles, pc, mode, op, info, pending, content, last, results,
           items, stepIdx, sessCfg, outcome, startBuf, firstBuf, captureFailed,
           reactVarCache >>

-----------------------------------------------------------------------------
\* File contents

Missing ==
  [ver |-> 0, prompts |-> FALSE, edits |-> << >>, partial |-> FALSE, react |-> 0]

Pristine(v) ==
  [ver |-> v, prompts |-> FALSE, edits |-> << >>, partial |-> FALSE, react |-> 0]

Exists(f) == f.ver # 0

\* The text holds a splice of tweakcc: it is a patched artifact.
IsPatched(f) == f.prompts \/ f.edits # << >>

Truncated(f) == [f EXCEPT !.partial = TRUE]

Range(s) == { s[i] : i \in 1..Len(s) }

Splice(buf, name) == [buf EXCEPT !.edits = Append(@, name)]

-----------------------------------------------------------------------------
\* The target text, by release.  A patch function finds its anchor when the
\* release has it and the function's own splice has not already replaced it;
\* a truncated text has no anchors.

ToolsetsSubSteps ==
  << "writeToolsetFieldToAppState", "writeToolFetchingUseMemo",
     "writeToolsetComponentDefinition", "writeSlashCommandDefinition",
     "insertShiftTabAppStateVar", "appendToolsetToModeDisplay",
     "appendToolsetToShortcutsDisplay" >>

ConversationTitleSubSteps ==
  << "writeTitleSlashCommand", "writeCustomNamingFunctions",
     "writeAppendEntryInterceptor", "writeTweakccSummaryCheck" >>

AllPatchFns ==
  {"writeThemes", "writeIgnoreMaxSubscription",
   "writeTaskToolModelSchemaCustomization", "enableRenameConversationCommand"}
    \cup Range(ToolsetsSubSteps) \cup Range(ConversationTitleSubSteps)

\* Release 1 lacks the anchor of writeIgnoreMaxSubscription; release 2 lacks
\* those of the third toolsets sub-step and of the optional rename command;
\* later releases have none of the anchors.
Anchors(v) ==
  IF v = 1 THEN AllPatchFns \ {"writeIgnoreMaxSubscription"}
  ELSE IF v = 2 THEN AllPatchFns \ {"writeToolsetComponentDefinition",
                                    "enableRenameConversationCommand"}
  ELSE {}

Locate(buf, fn) ==
  /\ ~buf.partial
  /\ fn \in Anchors(buf.ver)
  /\ fn \notin Range(buf.edits)

\* The React variable of the text; none can be found in a truncated text.
ReactVarOf(buf) == IF buf.partial THEN 0 ELSE buf.ver

\* getReactVar(fileContents): the memo when it holds a name, else the name
\* found in the text.
getReactVar(buf) ==
  IF reactVarCache # 0 THEN reactVarCache ELSE ReactVarOf(buf)

\* The memo after a call of getReactVar: a name that was found is kept,
\* undefined is not.
MemoAfter(buf) == getReactVar(buf)

\* The patch functions that build their code around getReactVar's result.
UsesReactVar ==
  {"writeToolsetComponentDefinition", "writeSlashCommandDefinition",
   "writeTitleSlashCommand"}

\* A single patch function: buffer, or Missing for null.
PatchFn(buf, fn) ==
  IF ~Locate(buf, fn) THEN Missing
  ELSE IF fn \notin UsesReactVar THEN Splice(buf, fn)
  ELSE IF getReactVar(buf) = 0 THEN Missing
  ELSE [Splice(buf, fn) EXCEPT !.react = getReactVar(buf)]

\* Runs the sub-steps fns[i..] on the working copy; stops at the first null.
RECURSIVE RunSubSteps(_, _, _)
RunSubSteps(buf, fns, i) ==
  IF i > Len(fns) THEN [ret |-> buf, work |-> buf]
  ELSE IF ~Exists(PatchFn(buf, fns[i])) THEN [ret |-> Missing, work |-> buf]
  ELSE RunSubSteps(PatchFn(buf, fns[i]), fns, i + 1)

writeToolsets(oldFile, toolsetsConfigured) ==
  IF ~toolsetsConfigured THEN [ret |-> Missing, work |-> oldFile]
  ELSE RunSubSteps(oldFile, ToolsetsSubSteps, 1)

writeConversationTitle(oldFile) ==
  LET r == RunSubSteps(oldFile, ConversationTitleSubSteps, 1)
      tmp == PatchFn(r.ret, "enableRenameConversationCommand")
  IN IF ~Exists(r.ret) THEN r
     ELSE IF Exists(tmp) THEN [ret |-> tmp, work |-> tmp]
     ELSE r

SimpleStep(buf, fn) == [ret |-> PatchFn(buf, fn), work |-> buf]

-----------------------------------------------------------------------------
\* The orchestrator's registry (applyCustomization): the PatchResult names in
\* application order.  "themes" and "toolsets" run only when configured; the
\* other entries are always enabled.

Registry ==
  << "themes", "ignore-max-subscription", "toolsets", "conversation-title",
     "task-tool-model-schema" >>

Enabled(name, cfg) ==
  CASE name = "themes" -> cfg.themes
    [] name = "toolsets" -> cfg.toolsets
    [] OTHER -> TRUE

\* The registry entries whose patch function is made to throw in the runs
\* explored (an exception out of a patch function is an input of trackPatch).
ThrowingEntries == {"themes", "toolsets"}

\* No patchFn() call yet.
NoCall == [ret |-> Missing, work |-> Missing, threw |-> FALSE]

\* patchFn(): the closure trackPatch calls for a registry entry.  It returns
\* the new buffer, returns null (ret is Missing), or throws.
RunStep(name, buf, cfg, throws) ==
  LET r == CASE name = "themes" -> SimpleStep(buf, "writeThemes")
             [] name = "ignore-max-subscription" ->
                  SimpleStep(buf, "writeIgnoreMaxSubscription")
             [] name = "toolsets" -> writeToolsets(buf, cfg.toolsets)
             [] name = "conversation-title" -> writeConversationTitle(buf)
             [] OTHER -> SimpleStep(buf, "writeTaskToolModelSchemaCustomization")
  IN [ret |-> IF throws THEN Missing ELSE r.ret, work |-> r.work, threw |-> throws]

\* Whether the closure of a registry entry gets as far as a call of
\* getReactVar: writeTitleSlashCommand calls it first thing;
\* writeToolsetComponentDefinition calls it once its anchors are found.
CallsGetReactVar(name, buf, cfg, throws) ==
  /\ ~throws
  /\ \/ name = "conversation-title"
     \/ /\ name = "toolsets"
        /\ cfg.toolsets
        /\ LET r == RunSubSteps(buf, SubSeq(ToolsetsSubSteps, 1, 2), 1)
           IN Exists(r.ret) /\ Locate(r.ret, "writeToolsetComponentDefinition")

\* trackPatch: the PatchResult pushed for a call.
Recorded_AlwaysSuccess(name, r) == [name |-> name, success |-> TRUE, error |-> ""]

Recorded(name, r) ==
  IF r.threw THEN [name |-> name, success |-> FALSE, error |-> "thrown"]
  ELSE IF Exists(r.ret) THEN [name |-> name, success |-> TRUE, error |-> ""]
  ELSE [name |-> name, success |-> FALSE, error |-> "returned null"]

\* trackPatch's patchResults.push(...): one entry on each of its three paths.
PushResult_SuccessOnly(rs, name, r) ==
  IF ~r.threw /\ Exists(r.ret) THEN Append(rs, Recorded(name, r)) ELSE rs

PushResult(rs, name, r) == Append(rs, Recorded(name, r))

\* trackPatch's return value and the caller's `if (result) content = result`.
NextContent_Leaky(buf, r) == r.work

NextContent(buf, r) ==
  IF ~r.threw /\ Exists(r.ret) THEN r.ret ELSE buf

\* The registry entry handled after entry idx.
NextIdx_Abort(idx, r) ==
  IF ~r.threw /\ Exists(r.ret) THEN idx + 1 ELSE Len(Registry) + 1

NextIdx(idx, r) == idx + 1

-----------------------------------------------------------------------------
\* The snapshot of the installation kind

Snapshot == IF kind = "native" THEN nativeBackup ELSE cliBackup

NoInfo == [found |-> FALSE, wasUpdated |-> FALSE, oldVersion |-> 0,
           newVersion |-> 0, version |-> 0]

\* No directory, no call of replaceFileBreakingHardLinks on its own.
NoDisk == [live |-> "none", alias |-> "none", data |-> << >>, mode |-> << >>]

NoReplace == [pc |-> "none"]

\* No pair of runs under comparison.
NoRuns == [phase |-> "none"]

\* No patch-level function called on its own.
NoFn == [name |-> "none"]

\* The tool before its first run.
ToolInit ==
  /\ kind \in {"npm", "native"}
  /\ ccVer = 1
  /\ live = Pristine(1)
  /\ cliBackup = Missing
  /\ nativeBackup = Missing
  /\ configFile = [ccVersion |-> 0, changesApplied |-> FALSE]
  /\ settings = [themes |-> TRUE, toolsets |-> FALSE]
  /\ promptFiles = "default"
  /\ pc = "idle"
  /\ mode = "none"
  /\ op = "none"
  /\ info = NoInfo
  /\ pending = Missing
  /\ content = Missing
  /\ last = NoCall
  /\ results = << >>
  /\ items = << >>
  /\ stepIdx = 0
  /\ sessCfg = settings
  /\ outcome = "none"
  /\ startBuf = Missing
  /\ firstBuf = Missing
  /\ captureFailed = FALSE
  /\ reactVarCache = 0

Init ==
  /\ ToolInit
  /\ disk = NoDisk
  /\ rf = NoReplace
  /\ runs = NoRuns
  /\ fcall = NoFn

files == << live, cliBackup, nativeBackup, configFile >>
env == << kind, ccVer, settings, promptFiles >>
session == << pending, content, last, results, items, stepIdx, sessCfg,
              outcome, startBuf, firstBuf >>

\* A fresh applyCustomization / restore call.
ResetSession ==
  /\ pending' = Missing
  /\ content' = Missing
  /\ last' = NoCall
  /\ results' = << >>
  /\ items' = << >>
  /\ stepIdx' = 0
  /\ sessCfg' = settings
  /\ outcome' = "none"
  /\ startBuf' = Missing
  /\ firstBuf' = Missing

\* The process ends: nothing it held in memory survives.
ProcessGone ==
  /\ pc' = "idle"
  /\ mode' = "none"
  /\ op' = "none"
  /\ info' = NoInfo
  /\ captureFailed' = FALSE
  /\ reactVarCache' = 0
  /\ ResetSession

\* Where control goes when the operation in progress has ended: back to the
\* menu of the interactive UI, or to the end of main.
AfterOp == IF mode = "ui" THEN "menu" ELSE "done"

-----------------------------------------------------------------------------
\* The environment, between runs of the tool

\* main: the tool is started with --backup, --restore, --apply or no flag.
Launch ==
  /\ pc = "idle"
  /\ \E m \in {"backup", "restore", "apply", "ui"} : mode' = m
  /\ pc' = "startup"
  /\ UNCHANGED << lab, reactVarCache, files, env, op, info, session, captureFailed >>

\* The user updates Claude Code, before a run or while the UI is open: the
\* live artifact is the next release.
EnvUpdate ==
  /\ pc \in {"idle", "menu"}
  /\ ccVer < MaxVer
  /\ ccVer' = ccVer + 1
  /\ live' = Pristine(ccVer + 1)
  /\ UNCHANGED << lab, reactVarCache, kind, settings, promptFiles, cliBackup, nativeBackup,
                  configFile, pc, mode, op, info, session, captureFailed >>

\* The user deletes the backup file (the README's way out of a bad backup).
UserDeletesBackup ==
  /\ pc = "idle"
  /\ Exists(Snapshot)
  /\ cliBackup' = Missing
  /\ nativeBackup' = Missing
  /\ UNCHANGED << lab, reactVarCache, env, live, configFile, pc, mode, op, info, session,
                  captureFailed >>

\* The user edits the system-prompt markdown files.
UserEditsPrompts ==
  /\ pc = "idle"
  /\ \E p \in {"default", "custom", "malformed"} :
       p # promptFiles /\ promptFiles' = p
  /\ UNCHANGED << lab, reactVarCache, kind, ccVer, settings, files, pc, mode, op, info, session,
                  captureFailed >>

\* Ctrl+C (useInput: process.exit(0)) or a kill, at any await of the process.
Interrupt ==
  /\ pc # "idle"
  /\ ProcessGone
  /\ UNCHANGED << lab, files, env >>

-----------------------------------------------------------------------------
\* startupCheck

\* findClaudeCodeInstallation: the text the version is extracted from.
VersionSource ==
  IF kind = "native" /\ Exists(nativeBackup) THEN nativeBackup ELSE live

\* A truncated artifact carries no VERSION string and no extractable claude.js.
InstallationFound == Exists(live) /\ ~VersionSource.partial

\* backupClijs / backupNativeBinary: fs.copyFile(live path, backup path);
\* a failed copy leaves what was there.
CaptureSnapshot(ok, old) == IF ok THEN live ELSE old

\* backupClijs / backupNativeBinary: the config update after the copy.
CaptureConfig(ok, cfg, version) ==
  IF ok THEN [ccVersion |-> version, changesApplied |-> FALSE] ELSE cfg

\* The whole of startupCheck for a found installation.  ok1, ok2: whether the
\* copy of the initial capture and of the capture after a version change
\* succeed.  The result: the snapshot, the config, what is returned, whether
\* fs.unlink threw, whether a capture failed.
StartupCheckResult(snap, cfg, ok1, ok2) ==
  LET realVersion == VersionSource.ver
      backedUpVersion == cfg.ccVersion
      initial == ~Exists(snap)
      hasBackedUp == initial /\ ok1
      snap1 == IF initial THEN CaptureSnapshot(ok1, snap) ELSE snap
      cfg1 == IF initial THEN CaptureConfig(ok1, cfg, realVersion) ELSE cfg
      differs == realVersion # backedUpVersion
      recapture == differs /\ ~hasBackedUp
      threw == recapture /\ kind = "npm" /\ ~Exists(snap1)
  IN [ threw |-> threw,
       snap |-> IF recapture /\ ~threw
                  THEN CaptureSnapshot(ok2, Missing) ELSE snap1,
       cfg |-> IF recapture /\ ~threw
                 THEN CaptureConfig(ok2, cfg1, realVersion) ELSE cfg1,
       captureFailed |-> (initial /\ ~ok1) \/ (recapture /\ ~threw /\ ~ok2),
       info |-> [found |-> TRUE, wasUpdated |-> differs,
                 oldVersion |-> IF differs THEN backedUpVersion ELSE 0,
                 newVersion |-> IF differs THEN realVersion ELSE 0,
                 version |-> realVersion] ]

SetSnapshot(f) ==
  /\ cliBackup' = IF kind = "npm" THEN f ELSE cliBackup
  /\ nativeBackup' = IF kind = "native" THEN f ELSE nativeBackup

\* startupCheck returns null (main prints the search paths and exits), or
\* rejects because the installation's version cannot be read.
StartupNotFound ==
  /\ pc = "startup"
  /\ ~InstallationFound
  /\ ProcessGone
  /\ UNCHANGED << lab, files, env >>

StartupCheck ==
  /\ pc = "startup"
  /\ InstallationFound
  /\ \E ok1, ok2 \in BOOLEAN :
       LET r == StartupCheckResult(Snapshot, configFile, ok1, ok2) IN
         /\ SetSnapshot(r.snap)
         /\ configFile' = r.cfg
         /\ IF r.threw
              THEN /\ ProcessGone
              ELSE /\ info' = r.info
                   /\ captureFailed' = r.captureFailed
                   /\ reactVarCache' = reactVarCache
                   /\ mode' = mode
                   /\ op' = CASE mode = "apply" -> "apply"
                              [] mode = "restore" -> "restore"
                              [] OTHER -> "none"
                   /\ pc' = CASE mode = "backup" -> "backupCmd"
                              [] mode = "ui" -> "menu"
                              [] OTHER -> "r_check"
                   /\ ResetSession
  /\ UNCHANGED << lab, env, live >>

\* main, --backup: backupNativeBinary or backupClijs of the installation
\* startupCheck found; exit 0, or exit 1 when the copy fails.
BackupCommand ==
  /\ pc = "backupCmd"
  /\ \E ok \in BOOLEAN :
       /\ SetSnapshot(CaptureSnapshot(ok, Snapshot))
       /\ configFile' = CaptureConfig(ok, configFile, info.version)
  /\ ProcessGone
  /\ UNCHANGED << lab, env, live >>

-----------------------------------------------------------------------------
\* The interactive UI (App.handleMainSubmit, updateSettings)

UiApply ==
  /\ pc = "menu"
  /\ op' = "apply"
  /\ pc' = "r_check"
  /\ ResetSession
  /\ UNCHANGED << lab, reactVarCache, files, env, mode, info, captureFailed >>

UiRestore ==
  /\ pc = "menu"
  /\ op' = "restore"
  /\ pc' = "r_check"
  /\ ResetSession
  /\ UNCHANGED << lab, reactVarCache, files, env, mode, info, captureFailed >>

UiEditSettings ==
  /\ pc = "menu"
  /\ \E f \in {"themes", "toolsets"} :
       settings' = [settings EXCEPT ![f] = ~@]
  /\ configFile' = [configFile EXCEPT !.changesApplied = FALSE]
  /\ UNCHANGED << lab, reactVarCache, kind, ccVer, promptFiles, live, cliBackup, nativeBackup,
                  pc, mode, op, info, session, captureFailed >>

\* The end of main after --restore or --apply: process.exit.
Exit ==
  /\ pc \in {"done", "menu"}
  /\ ProcessGone
  /\ UNCHANGED << lab, files, env >>

-----------------------------------------------------------------------------
\* An operation (applyCustomization, or a restore on its own) ends.

EndOp(how) ==
  /\ outcome' = how
  /\ pc' = AfterOp
  /\ op' = "none"

-----------------------------------------------------------------------------
\* restoreClijsFromBackup / restoreNativeBinaryFromBackup

\* checkRestorePermissions([live path, backup path]).
HasPermissions(permOk) == Exists(live) /\ Exists(Snapshot) /\ permOk

\* restoreNativeBinaryFromBackup returns false when no backup file exists.
RestoreSkipped == kind = "native" /\ ~Exists(nativeBackup)

RestoreCheck ==
  /\ pc = "r_check"
  /\ \E permOk \in BOOLEAN :
       IF RestoreSkipped
         THEN IF op = "apply"
                THEN /\ pc' = "a_read"
                     /\ UNCHANGED << op, outcome, pending >>
                ELSE /\ EndOp("restoreSkipped")
                     /\ UNCHANGED pending
         ELSE IF ~HasPermissions(permOk)
                THEN /\ EndOp("restoreFailed")
                     /\ UNCHANGED pending
                ELSE /\ pending' = Snapshot
                     /\ pc' = "w_unlink"
                     /\ UNCHANGED << op, outcome >>
  /\ UNCHANGED << lab, reactVarCache, files, env, mode, info, content, last, results, items,
                  stepIdx, sessCfg, startBuf, firstBuf, captureFailed >>

\* The operation parameter of replaceFileBreakingHardLinks.
Operation == IF Exists(content) THEN "patch" ELSE "restore"

\* replaceFileBreakingHardLinks: stat, then unlink (errors ignored).
ReplaceUnlink ==
  /\ pc = "w_unlink"
  /\ live' = Missing
  /\ pc' = "w_open"
  /\ UNCHANGED << lab, reactVarCache, env, cliBackup, nativeBackup, configFile, mode, op, info,
                  session, captureFailed >>

\* fsPromises.writeFile: the file is created and filled chunk by chunk.
ReplaceWriteBegin ==
  /\ pc = "w_open"
  /\ live' = Truncated(pending)
  /\ pc' = "w_write"
  /\ UNCHANGED << lab, reactVarCache, env, cliBackup, nativeBackup, configFile, mode, op, info,
                  session, captureFailed >>

\* fsPromises.writeFile completes, or rejects (no space left) and
\* replaceFileBreakingHardLinks rejects with it.
ReplaceWriteEnd ==
  /\ pc = "w_write"
  /\ \E ok \in BOOLEAN :
       IF ok THEN /\ live' = pending
                  /\ pc' = "w_chmod"
                  /\ UNCHANGED << op, outcome >>
             ELSE /\ live' = live
                  /\ EndOp(IF Operation = "restore" THEN "restoreFailed"
                                                    ELSE "writeFailed")
  /\ UNCHANGED << lab, reactVarCache, env, cliBackup, nativeBackup, configFile, mode, info,
                  pending, content, last, results, items, stepIdx, sessCfg,
                  startBuf, firstBuf, captureFailed >>

\* fsPromises.chmod(filePath, originalMode).
ReplaceChmod ==
  /\ pc = "w_chmod"
  /\ pc' = IF Operation = "restore" THEN "r_finish" ELSE "a_cfg"
  /\ UNCHANGED << lab, reactVarCache, files, env, mode, op, info, session, captureFailed >>

\* clearAllAppliedHashes, updateConfigFile(changesApplied = false), return true.
RestoreFinish ==
  /\ pc = "r_finish"
  /\ configFile' = [configFile EXCEPT !.changesApplied = FALSE]
  /\ IF op = "apply"
       THEN /\ pc' = "a_read"
            /\ UNCHANGED << op, outcome >>
       ELSE EndOp("restored")
  /\ UNCHANGED << lab, reactVarCache, env, live, cliBackup, nativeBackup, mode, info, pending,
                  content, last, results, items, stepIdx, sessCfg, startBuf,
                  firstBuf, captureFailed >>

-----------------------------------------------------------------------------
\* applyCustomization

\* The text the session starts from: cli.js as restored, or claude.js
\* extracted from the native backup if it exists, else from the live binary.
SessionSource ==
  IF kind = "native" /\ Exists(nativeBackup) THEN nativeBackup ELSE live

ApplyRead ==
  /\ pc = "a_read"
  /\ IF ~Exists(SessionSource) \/ (kind = "native" /\ SessionSource.partial)
       THEN /\ EndOp("readFailed")
            /\ UNCHANGED << content, startBuf >>
       ELSE /\ content' = SessionSource
            /\ startBuf' = SessionSource
            /\ pc' = "a_prompts"
            /\ UNCHANGED << op, outcome >>
  /\ UNCHANGED << lab, reactVarCache, files, env, mode, info, pending, last, results, items,
                  stepIdx, sessCfg, firstBuf, captureFailed >>

\* applySystemPrompts(content, version): rejects when a prompt markdown file
\* cannot be parsed, else returns the buffer with the customised prompts
\* spliced in and the items it reports.
applySystemPrompts(buf, prompts) ==
  LET spliced == prompts = "custom" /\ ~buf.partial
  IN [ threw |-> prompts = "malformed",
       newContent |-> IF spliced THEN [buf EXCEPT !.prompts = TRUE] ELSE buf,
       items |-> IF spliced THEN << "system-prompts" >> ELSE << >> ]

\* const r = await applySystemPrompts(content, ccInstInfo.version), outside
\* trackPatch and outside any try; content = r.newContent; items.push(...).
ApplySystemPrompts ==
  /\ pc = "a_prompts"
  /\ LET r == applySystemPrompts(content, promptFiles)
     IN IF r.threw
          THEN /\ EndOp("stepFailed")
               /\ UNCHANGED << content, items, firstBuf, stepIdx >>
          ELSE /\ content' = r.newContent
               /\ items' = r.items
               /\ firstBuf' = r.newContent
               /\ stepIdx' = 1
               /\ pc' = "steps"
               /\ UNCHANGED << op, outcome >>
  /\ UNCHANGED << lab, reactVarCache, files, env, mode, info, pending, last, results, sessCfg,
                  startBuf, captureFailed >>

\* One entry of the registry: skipped when not configured, else
\*   const r = trackPatch(name, () => patchFn(content, ...));
\*   if (r) content = r;
TrackPatch ==
  /\ pc = "steps"
  /\ stepIdx <= Len(Registry)
  /\ LET name == Registry[stepIdx]
     IN IF ~Enabled(name, sessCfg)
          THEN /\ stepIdx' = stepIdx + 1
               /\ UNCHANGED << content, last, results, reactVarCache >>
          ELSE \E throws \in {FALSE} \cup {name \in ThrowingEntries} :
                 LET r == RunStep(name, content, sessCfg, throws)
                 IN /\ results' = PushResult(results, name, r)
                    /\ content' = NextContent(content, r)
                    /\ last' = r
                    /\ stepIdx' = NextIdx(stepIdx, r)
                    /\ reactVarCache' =
                         IF CallsGetReactVar(name, content, sessCfg, throws)
                           THEN MemoAfter(content) ELSE reactVarCache
  /\ UNCHANGED << lab, files, env, pc, mode, op, info, pending, items, sessCfg,
                  outcome, startBuf, firstBuf, captureFailed >>

\* NPM: replaceFileBreakingHardLinks(cliPath, content, 'patch').
WriteBackNpm ==
  /\ pc = "steps"
  /\ stepIdx > Len(Registry)
  /\ kind = "npm"
  /\ pending' = content
  /\ pc' = "w_unlink"
  /\ UNCHANGED << lab, reactVarCache, files, env, mode, op, info, content, last, results, items,
                  stepIdx, sessCfg, outcome, startBuf, firstBuf,
                  captureFailed >>

\* Native: repackNativeInstallation(path, buffer, path), one synchronous call
\* that replaces the binary (remove, then write) or throws.
RepackNative ==
  /\ pc = "steps"
  /\ stepIdx > Len(Registry)
  /\ kind = "native"
  /\ \E ok \in BOOLEAN :
       IF ok THEN /\ live' = content
                  /\ pc' = "a_cfg"
                  /\ UNCHANGED << op, outcome >>
             ELSE /\ live' = Missing
                  /\ EndOp("writeFailed")
  /\ UNCHANGED << lab, reactVarCache, env, cliBackup, nativeBackup, configFile, mode, info,
                  pending, content, last, results, items, stepIdx, sessCfg,
                  startBuf, firstBuf, captureFailed >>

\* updateConfigFile(changesApplied = true); return {config, patchResults}.
ApplyFinish ==
  /\ pc = "a_cfg"
  /\ configFile' = [configFile EXCEPT !.changesApplied = TRUE]
  /\ EndOp("resolved")
  /\ UNCHANGED << lab, reactVarCache, env, live, cliBackup, nativeBackup, mode, info, pending,
                  content, last, results, items, stepIdx, sessCfg, startBuf,
                  firstBuf, captureFailed >>

\* What the user is told when applyCustomization has ended: main (--apply)
\* prints one fixed line when the promise resolves; handleMainSubmit counts
\* the successful and the failed PatchResults.
Notification ==
  LET ok == Len(SelectSeq(results, LAMBDA x : x.success))
      failed == Len(results) - ok
  IN IF outcome # "resolved" THEN "Failed to apply patches"
     ELSE IF mode # "ui" THEN "Customizations applied successfully!"
     ELSE IF failed = 0 THEN "All patches applied successfully!"
     ELSE IF ok = 0 THEN "No patches could be applied"
     ELSE "patches applied, some failed"

-----------------------------------------------------------------------------
Next ==
  \/ Launch
  \/ EnvUpdate
  \/ UserDeletesBackup
  \/ UserEditsPrompts
  \/ Interrupt
  \/ StartupNotFound
  \/ StartupCheck
  \/ BackupCommand
  \/ UiApply
  \/ UiRestore
  \/ UiEditSettings
  \/ Exit
  \/ RestoreCheck
  \/ ReplaceUnlink
  \/ ReplaceWriteBegin
  \/ ReplaceWriteEnd
  \/ ReplaceChmod
  \/ RestoreFinish
  \/ ApplyRead
  \/ ApplySystemPrompts
  \/ TrackPatch
  \/ WriteBackNpm
  \/ RepackNative
  \/ ApplyFinish

Spec == Init /\ [][Next]_vars

-----------------------------------------------------------------------------
\* replaceFileBreakingHardLinks(filePath, newContent, operation) on its own,
\* over a directory in which filePath may share its storage with another
\* path.  disk.live and disk.alias name the inode each path leads to
\* ("none": no such path); disk.data and disk.mode are the inodes' content
\* and permission mode.

Modes == {"600", "644", "755", "775"}

\* let originalMode = 0o755: the fallback when stat fails.
FallbackMode == "755"

\* The mode of a file that writeFile creates (0o666 under umask 022).
CreateMode == "644"

InitReplace ==
  /\ ToolInit
  /\ kind = "npm"
  /\ runs = NoRuns
  /\ fcall = NoFn
  /\ \E exists, linked \in BOOLEAN, m \in Modes, c \in {"patched", "restored"} :
       /\ linked => exists
       /\ ~exists => m = FallbackMode
       /\ disk = [live |-> IF exists THEN "a" ELSE "none",
                  alias |-> IF linked THEN "a" ELSE "none",
                  data |-> [a |-> IF exists THEN "old" ELSE "", b |-> ""],
                  mode |-> [a |-> IF exists THEN m ELSE "", b |-> ""]]
       /\ rf = [pc |-> "stat", originalMode |-> FallbackMode, newContent |-> c,
                oldMode |-> IF exists THEN m ELSE "none", linked |-> linked]

\* const stats = await fsPromises.stat(filePath); originalMode = stats.mode;
\* a failing stat is caught and leaves the fallback.
RfStat ==
  /\ rf.pc = "stat"
  /\ rf' = [rf EXCEPT !.pc = "unlink",
                      !.originalMode = IF disk.live # "none"
                                         THEN disk.mode[disk.live] ELSE @]
  /\ UNCHANGED << disk, tool, runs, fcall >>

\* await fsPromises.unlink(filePath) in a try whose catch only logs: the path
\* is removed, or (no such file, or the directory refuses) it is not.
RfUnlink ==
  /\ rf.pc = "unlink"
  /\ \E ok \in BOOLEAN :
       disk' = IF disk.live # "none" /\ ok
                 THEN [disk EXCEPT !.live = "none"]
                 ELSE disk
  /\ rf' = [rf EXCEPT !.pc = "write"]
  /\ UNCHANGED << tool, runs, fcall >>

\* await fsPromises.writeFile(filePath, newContent): creates the file when
\* the path does not exist, else truncates and fills the file the path leads
\* to; when it rejects the function rejects, leaving a prefix written.
RfWrite ==
  /\ rf.pc = "write"
  /\ \E ok \in BOOLEAN :
       LET text == IF ok THEN rf.newContent ELSE "prefix"
       IN /\ disk' = IF disk.live = "none"
                       THEN [disk EXCEPT !.live = "b", !.data.b = text,
                                         !.mode.b = CreateMode]
                       ELSE [disk EXCEPT !.data[disk.live] = text]
          /\ rf' = [rf EXCEPT !.pc = IF ok THEN "chmod" ELSE "rejected"]
  /\ UNCHANGED << tool, runs, fcall >>

\* await fsPromises.chmod(filePath, originalMode).
RfChmod ==
  /\ rf.pc = "chmod"
  /\ disk' = [disk EXCEPT !.mode[disk.live] = rf.originalMode]
  /\ rf' = [rf EXCEPT !.pc = "done"]
  /\ UNCHANGED << tool, runs, fcall >>

NextReplace ==
  \/ RfStat
  \/ RfUnlink
  \/ RfWrite
  \/ RfChmod

SpecReplace == InitReplace /\ [][NextReplace]_vars

-----------------------------------------------------------------------------
\* applyCustomization run twice on one pristine text with one configuration,
\* the text restored in between, in one process or in two.

Configs == [themes : BOOLEAN, toolsets : BOOLEAN]

\* The process of the first run may have run earlier sessions: its memo is
\* empty or holds the name one of them found.
InitTwice ==
  /\ kind \in {"npm", "native"}
  /\ ccVer \in 1..MaxVer
  /\ live = Pristine(ccVer)
  /\ cliBackup = (IF kind = "npm" THEN Pristine(ccVer) ELSE Missing)
  /\ nativeBackup = (IF kind = "native" THEN Pristine(ccVer) ELSE Missing)
  /\ configFile = [ccVersion |-> ccVer, changesApplied |-> FALSE]
  /\ settings \in Configs
  /\ promptFiles \in {"default", "custom"}
  /\ pc = "a_read"
  /\ mode = "ui"
  /\ op = "apply"
  /\ info = [NoInfo EXCEPT !.found = TRUE, !.version = ccVer]
  /\ pending = Missing
  /\ content = Missing
  /\ last = NoCall
  /\ results = << >>
  /\ items = << >>
  /\ stepIdx = 0
  /\ sessCfg = settings
  /\ outcome = "none"
  /\ startBuf = Missing
  /\ firstBuf = Missing
  /\ captureFailed = FALSE
  /\ reactVarCache \in 0..MaxVer
  /\ disk = NoDisk
  /\ rf = NoReplace
  /\ fcall = NoFn
  /\ \E t \in SUBSET ThrowingEntries, two \in BOOLEAN :
       runs = [phase |-> "first", throwing |-> t, twoProcesses |-> two,
               memo |-> reactVarCache, out |-> << >>]

TwRead ==
  /\ runs.phase \in {"first", "second"}
  /\ ApplyRead

TwPrompts ==
  /\ runs.phase \in {"first", "second"}
  /\ ApplySystemPrompts

\* A patch function throws on an input or it does not: the entries that
\* throw are the same in both runs.
TwTrackPatch ==
  /\ runs.phase \in {"first", "second"}
  /\ TrackPatch
  /\ Enabled(Registry[stepIdx], sessCfg) =>
       (last'.threw <=> Registry[stepIdx] \in runs.throwing)

\* The first run has produced its text: the live artifact is restored and a
\* second applyCustomization begins, in the same process or in a new one.
TwRestore ==
  /\ runs.phase = "first"
  /\ pc = "steps"
  /\ stepIdx > Len(Registry)
  /\ runs' = [runs EXCEPT !.phase = "second", !.out = Append(@, content)]
  /\ reactVarCache' = IF runs.twoProcesses THEN 0 ELSE reactVarCache
  /\ ResetSession
  /\ pc' = "a_read"
  /\ UNCHANGED << disk, rf, fcall, files, env, mode, op, info, captureFailed >>

TwFinish ==
  /\ runs.phase = "second"
  /\ pc = "steps"
  /\ stepIdx > Len(Registry)
  /\ runs' = [runs EXCEPT !.phase = "done", !.out = Append(@, content)]
  /\ UNCHANGED << disk, rf, fcall, tool >>

NextTwice ==
  \/ TwRead
  \/ TwPrompts
  \/ TwTrackPatch
  \/ TwRestore
  \/ TwFinish

SpecTwice == InitTwice /\ [][NextTwice]_vars

-----------------------------------------------------------------------------
\* writeThemes and writeTweakccSummaryCheck called on their own.  A text is
\* a sequence of tokens and an offset counts tokens from 0, as a JavaScript
\* offset counts characters.

\* The value null of a string | null.
Null == << "null" >>

\* s.slice(from, to) and s.slice(from).
Slice(s, from, to) == SubSeq(s, from + 1, to)
SliceFrom(s, from) == SubSeq(s, from + 1, Len(s))

\* The index of the first match of a pattern in s, -1 when there is none.
IndexOf(s, tok) ==
  IF \E i \in 1..Len(s) : s[i] = tok
    THEN (CHOOSE i \in 1..Len(s) : s[i] = tok /\ \A j \in 1..(i - 1) : s[j] # tok) - 1
    ELSE -1

\* The token of s at an offset.
TokenAt(s, off) == IF off >= 0 /\ off < Len(s) THEN s[off + 1] ELSE "eof"

\* The pieces of a target text: the colors function with its switch
\* ("FN", "SW", "}"), the switch without the function around it, the theme
\* options array ("ARR"), the theme mapping object ("OBJ").
BlockText(b) ==
  CASE b = "fnsw" -> << "FN", "SW", "}" >>
    [] b = "bare" -> << "SW", "}" >>
    [] b = "arr" -> << "ARR" >>
    [] OTHER -> << "OBJ" >>

BlockOrders ==
  { o \in UNION { [1..n -> {"fnsw", "bare", "arr", "obj"}] : n \in 1..3 } :
      /\ \A i, j \in DOMAIN o : i # j => o[i] # o[j]
      /\ ~({"fnsw", "bare"} \subseteq Range(o)) }

Filler(i) == CASE i = 1 -> "f1" [] i = 2 -> "f2" [] OTHER -> "f3"

\* The text made of the blocks in the order given, other code in between.
RECURSIVE TextOf(_, _, _)
TextOf(o, i, pad) ==
  IF i > Len(o) THEN << >>
  ELSE (IF pad THEN << Filler(i) >> ELSE << >>) \o BlockText(o[i]) \o TextOf(o, i + 1, pad)

\* config.settings.themes, each theme by its id.
ThemeLists ==
  { << >>, << "mine" >>, << "dark", "light" >>, << "light", "dark" >>,
    << "auto", "dark" >>, << "dark", "light", "auto" >> }

\* JSON.stringify(theme.colors)
ColorsOf(id) ==
  CASE id = "dark" -> "{dark colors}"
    [] id = "light" -> "{light colors}"
    [] id = "auto" -> "{auto colors}"
    [] OTHER -> "{mine colors}"

NoLocations == [found |-> FALSE]

\* getThemesLocation: the first match of each of the three anchors, null when
\* one of them is not found.
getThemesLocation(oldFile) ==
  LET sw == IndexOf(oldFile, "SW")
      arr == IndexOf(oldFile, "ARR")
      obj == IndexOf(oldFile, "OBJ")
  IN IF sw = -1 \/ arr = -1 \/ obj = -1 THEN NoLocations
     ELSE [found |-> TRUE,
           switchStatement |-> [startIndex |-> sw, endIndex |-> sw + 1],
           objArr |-> [startIndex |-> arr, endIndex |-> arr + 1],
           obj |-> [startIndex |-> obj, endIndex |-> obj + 1]]

\* The numeric value of a property key that is a canonical array index
\* ("1", "2"), -1 for any other key.
IntegerKey(k) == CASE k = "1" -> 1 [] k = "2" -> 2 [] OTHER -> -1

\* Object.fromEntries(entries) as the sequence of [key, value] pairs that
\* JSON.stringify enumerates: one pair per distinct key holding the value
\* supplied last, the integer keys first in ascending numeric order, then the
\* other keys in the order in which they were first inserted.
ObjectFromEntries(entries) ==
  LET keys == { entries[i][1] : i \in 1..Len(entries) }
      firstAt(k) == CHOOSE i \in 1..Len(entries) :
                      /\ entries[i][1] = k
                      /\ \A j \in 1..(i - 1) : entries[j][1] # k
      lastAt(k) == CHOOSE i \in 1..Len(entries) :
                     /\ entries[i][1] = k
                     /\ \A j \in (i + 1)..Len(entries) : entries[j][1] # k
      ints == { k \in keys : IntegerKey(k) >= 0 }
      rank(k) == IF k \in ints
                 THEN Cardinality({ o \in ints : IntegerKey(o) < IntegerKey(k) })
                 ELSE Cardinality(ints)
                      + Cardinality({ o \in keys \ ints : firstAt(o) < firstAt(k) })
  IN [r \in 1..Cardinality(keys) |->
        LET k == CHOOSE o \in keys : rank(o) = r - 1
        IN << k, entries[lastAt(k)][2] >>]

\* 'return' + JSON.stringify(Object.fromEntries(themes.map(...))), the keys
\* of the mapping only (themes is the list of theme ids).
ObjText(themes) ==
  LET obj == ObjectFromEntries([i \in 1..Len(themes) |-> << themes[i], themes[i] >>])
  IN << "return{" >> \o [i \in 1..Len(obj) |-> obj[i][1]] \o << "}" >>

\* JSON.stringify(themes.map(theme => ({label, value})))
ObjArrText(themes) == << "[" >> \o themes \o << "]" >>

\* One case of the synthesized switch statement.
CaseText(id, themes, hasAutoTheme) ==
  IF hasAutoTheme /\ id = "auto"
    THEN << "case", "auto", "detectSystemTheme()",
            ColorsOf(IF "dark" \in Range(themes) THEN "dark" ELSE "auto"),
            ColorsOf(IF "light" \in Range(themes) THEN "light" ELSE "auto") >>
    ELSE << "case", id, ColorsOf(id) >>

RECURSIVE CasesText(_, _, _)
CasesText(themes, i, hasAutoTheme) ==
  IF i > Len(themes) THEN << >>
  ELSE CaseText(themes[i], themes, hasAutoTheme) \o CasesText(themes, i + 1, hasAutoTheme)

\* switch(A){ case"id":return colors; ... default:return themes[0].colors; }
SwitchText(themes, hasAutoTheme) ==
  << "switch(A){" >> \o CasesText(themes, 1, hasAutoTheme)
    \o << "default", ColorsOf(themes[1]), "}" >>

\* newFile.slice(0, start) + text + newFile.slice(end)
SpliceAt(newFile, start, end, text) ==
  Slice(newFile, 0, start) \o text \o SliceFrom(newFile, end)

\* History: a splice of the buffer cur at offset start, meant for anchor.
Logged(log, anchor, cur, start) ==
  Append(log, [anchor |-> anchor, hit |-> TokenAt(cur, start)])

\* const locations = getThemesLocation(oldFile); the two early returns.
ThLocate ==
  /\ fcall.name = "writeThemes" /\ fcall.pc = "locate"
  /\ LET locations == getThemesLocation(fcall.oldFile)
     IN fcall' =
          IF ~locations.found THEN [fcall EXCEPT !.pc = "done", !.ret = Null]
          ELSE IF fcall.themes = << >>
            THEN [fcall EXCEPT !.pc = "done", !.ret = fcall.oldFile,
                               !.locations = locations]
          ELSE [fcall EXCEPT !.pc = "obj", !.locations = locations,
                             !.newFile = fcall.oldFile]
  /\ UNCHANGED << tool, disk, rf, runs >>

\* Update theme mapping object (obj); oldFile = newFile.
ThSpliceObj ==
  /\ fcall.name = "writeThemes" /\ fcall.pc = "obj"
  /\ LET l == fcall.locations.obj
         newFile == SpliceAt(fcall.newFile, l.startIndex, l.endIndex,
                             ObjText(fcall.themes))
     IN fcall' = [fcall EXCEPT !.pc = "objArr", !.newFile = newFile,
                               !.oldFile = newFile,
                               !.log = Logged(@, "OBJ", fcall.newFile, l.startIndex)]
  /\ UNCHANGED << tool, disk, rf, runs >>

\* Update theme options array (objArr); oldFile = newFile.
ThSpliceObjArr ==
  /\ fcall.name = "writeThemes" /\ fcall.pc = "objArr"
  /\ LET l == fcall.locations.objArr
         newFile == SpliceAt(fcall.newFile, l.startIndex, l.endIndex,
                             ObjArrText(fcall.themes))
     IN fcall' = [fcall EXCEPT !.pc = IF "auto" \in Range(fcall.themes)
                                        THEN "detect" ELSE "switch",
                               !.newFile = newFile, !.oldFile = newFile,
                               !.log = Logged(@, "ARR", fcall.newFile, l.startIndex)]
  /\ UNCHANGED << tool, disk, rf, runs >>

\* hasAutoTheme: getColorsFunctionName(oldFile), oldFile.match(funcPattern),
\* and the detection code inserted before the function.
ThDetect ==
  /\ fcall.name = "writeThemes" /\ fcall.pc = "detect"
  /\ LET index == IndexOf(fcall.oldFile, "FN")
     IN fcall' =
          IF index = -1 THEN [fcall EXCEPT !.pc = "done", !.ret = Null]
          ELSE [fcall EXCEPT !.pc = "switch",
                             !.newFile = SpliceAt(@, index, index, << "detectionCode" >>),
                             !.log = Logged(@, "FN", fcall.newFile, index)]
  /\ UNCHANGED << tool, disk, rf, runs >>

\* The switch statement is built and spliced in; return newFile.
ThSpliceSwitch ==
  /\ fcall.name = "writeThemes" /\ fcall.pc = "switch"
  /\ LET l == fcall.locations.switchStatement
         newFile == SpliceAt(fcall.newFile, l.startIndex, l.endIndex,
                             SwitchText(fcall.themes, "auto" \in Range(fcall.themes)))
     IN fcall' = [fcall EXCEPT !.pc = "done", !.newFile = newFile, !.ret = newFile,
                               !.log = Logged(@, "SW", fcall.newFile, l.startIndex)]
  /\ UNCHANGED << tool, disk, rf, runs >>

\* The texts writeTweakccSummaryCheck is called on: the loop over the files
\* ("LOOP") and the statement if(x.has(m.uuid))continue; ("IF", ")continue;").
SummaryTexts ==
  { << "p", "LOOP", "q", "IF", ")continue;", "r" >>,
    << "LOOP", "IF", ")continue;" >>,
    << "LOOP", "LOOP", "q", "IF", ")continue;" >>,
    << "IF", ")continue;", "LOOP" >>,
    << "p", "LOOP", "q" >>,
    << "p", "q" >> }

\* The loop is searched for in the 200 characters before the continue.
SearchBack == 200

Max(a, b) == IF a > b THEN a ELSE b

\* findTweakccSummaryCheckLocations
findTweakccSummaryCheckLocations(fileContents) ==
  LET index == IndexOf(fileContents, "IF")
      searchStart == Max(0, index - SearchBack)
      loop == IndexOf(Slice(fileContents, searchStart, index), "LOOP")
  IN IF index = -1 \/ loop = -1 THEN NoLocations
     ELSE [found |-> TRUE, orLocation |-> index + 1,
           loopLocation |-> searchStart + loop]

SumFind ==
  /\ fcall.name = "writeTweakccSummaryCheck" /\ fcall.pc = "find"
  /\ LET locations == findTweakccSummaryCheckLocations(fcall.oldFile)
     IN fcall' =
          IF ~locations.found THEN [fcall EXCEPT !.pc = "done", !.ret = Null]
          ELSE [fcall EXCEPT !.pc = "loop", !.locations = locations,
                             !.newFile = fcall.oldFile]
  /\ UNCHANGED << tool, disk, rf, runs >>

LoopCode == << "const tweakccSummaries", "for (const file of files)" >>

\* First, insert at loopLocation.
SumInsertLoop ==
  /\ fcall.name = "writeTweakccSummaryCheck" /\ fcall.pc = "loop"
  /\ LET at == fcall.locations.loopLocation
     IN fcall' = [fcall EXCEPT !.pc = "or",
                               !.newFile = SpliceAt(@, at, at, LoopCode),
                               !.log = Logged(@, "LOOP", fcall.newFile, at)]
  /\ UNCHANGED << tool, disk, rf, runs >>

\* Then, insert at orLocation + loopCode.length; return newFile2.
SumInsertOr ==
  /\ fcall.name = "writeTweakccSummaryCheck" /\ fcall.pc = "or"
  /\ LET adjustedOrLocation == fcall.locations.orLocation + Len(LoopCode)
         newFile2 == SpliceAt(fcall.newFile, adjustedOrLocation, adjustedOrLocation,
                              << "||tweakccSummaries.has" >>)
     IN fcall' = [fcall EXCEPT !.pc = "done", !.newFile = newFile2, !.ret = newFile2,
                               !.log = Logged(@, ")continue;", fcall.newFile,
                                              adjustedOrLocation)]
  /\ UNCHANGED << tool, disk, rf, runs >>

InitSplice ==
  /\ ToolInit
  /\ kind = "npm"
  /\ disk = NoDisk
  /\ rf = NoReplace
  /\ runs = NoRuns
  /\ \/ \E o \in BlockOrders, pad \in BOOLEAN, t \in ThemeLists :
          fcall = [name |-> "writeThemes", pc |-> "locate",
                   arg |-> TextOf(o, 1, pad), themes |-> t,
                   oldFile |-> TextOf(o, 1, pad), newFile |-> << >>,
                   locations |-> NoLocations, ret |-> Null, log |-> << >>]
     \/ \E t \in SummaryTexts :
          fcall = [name |-> "writeTweakccSummaryCheck", pc |-> "find",
                   arg |-> t, themes |-> << >>, oldFile |-> t, newFile |-> << >>,
                   locations |-> NoLocations, ret |-> Null, log |-> << >>]

NextSplice ==
  \/ ThLocate
  \/ ThSpliceObj
  \/ ThSpliceObjArr
  \/ ThDetect
  \/ ThSpliceSwitch
  \/ SumFind
  \/ SumInsertLoop
  \/ SumInsertOr

SpecSplice == InitSplice /\ [][NextSplice]_vars

-----------------------------------------------------------------------------
\* The delimiter scanners called on their own.  A text is a sequence of
\* characters; offsets count from 0 and -1 stands for null.

\* The characters ", ', ` and \ of a text.
DoubleQuote == "dq"
SingleQuote == "sq"
BackQuote == "bq"
Backslash == "bs"

Quotes == { DoubleQuote, SingleQuote, BackQuote }

\* All sequences over alphabet of length at most n.
SeqsUpTo(alphabet, n) == UNION { [1..k -> alphabet] : k \in 0..n }

\* The stack machine of findSlashCommandListEndPosition: level counts every
\* '[' and ']' from bracketIndex + 1 on.
RECURSIVE ScanBrackets(_, _, _)
ScanBrackets(fileContents, i, level) ==
  IF ~(i < Len(fileContents) /\ level > 0) THEN -1
  ELSE IF fileContents[i + 1] = "[" THEN ScanBrackets(fileContents, i + 1, level + 1)
  ELSE IF fileContents[i + 1] = "]"
    THEN IF level - 1 = 0 THEN i ELSE ScanBrackets(fileContents, i + 1, level - 1)
  ELSE ScanBrackets(fileContents, i + 1, level)

\* fileContents.indexOf(ch, from)
IndexFrom(fileContents, ch, from) ==
  IF \E i \in (from + 1)..Len(fileContents) : fileContents[i] = ch
    THEN (CHOOSE i \in (from + 1)..Len(fileContents) :
            fileContents[i] = ch
            /\ \A j \in (from + 1)..(i - 1) : fileContents[j] # ch) - 1
    ELSE -1

\* findSlashCommandListEndPosition: "=>" stands for the match of
\* arrayStartPattern up to its '['.
findSlashCommandListEndPosition(fileContents) ==
  LET index == IndexOf(fileContents, "=>")
      bracketIndex == IndexFrom(fileContents, "[", index)
  IN IF index = -1 \/ bracketIndex = -1 THEN -1
     ELSE ScanBrackets(fileContents, bracketIndex + 1, 1)

\* The walk backwards out of the block: the index of the '{' found, -1 when
\* the start of the text is passed.
RECURSIVE WalkOutOfBlock(_, _, _)
WalkOutOfBlock(fileContents, i, level) ==
  IF ~(i >= 0 /\ level > 0) THEN i
  ELSE IF fileContents[i + 1] = "}" THEN WalkOutOfBlock(fileContents, i - 1, level + 1)
  ELSE IF fileContents[i + 1] = "{"
    THEN IF level - 1 = 0 THEN i ELSE WalkOutOfBlock(fileContents, i - 1, level - 1)
  ELSE WalkOutOfBlock(fileContents, i - 1, level)

\* The walk backwards to the previous semicolon.
RECURSIVE WalkToSemicolon(_, _)
WalkToSemicolon(fileContents, i) ==
  IF ~(i >= 0 /\ fileContents[i + 1] # ";") THEN i
  ELSE WalkToSemicolon(fileContents, i - 1)

\* findTopLevelPositionBeforeSlashCommand
findTopLevelPositionBeforeSlashCommand(fileContents) ==
  LET arrayEnd == findSlashCommandListEndPosition(fileContents)
      brace == IF arrayEnd = -1 THEN -1 ELSE WalkOutOfBlock(fileContents, arrayEnd, 1)
      semi == IF brace < 0 THEN -1 ELSE WalkToSemicolon(fileContents, brace)
  IN IF arrayEnd = -1 \/ brace < 0 \/ semi < 0 THEN -1 ELSE semi + 1

\* findMatchingBrace(content, startIndex): the for loop.
RECURSIVE MatchBrace(_, _, _, _, _)
MatchBrace(str, i, depth, inString, escapeNext) ==
  IF ~(i < Len(str)) THEN -1
  ELSE LET char == str[i + 1]
       IN IF escapeNext THEN MatchBrace(str, i + 1, depth, inString, FALSE)
          ELSE IF char = Backslash THEN MatchBrace(str, i + 1, depth, inString, TRUE)
          ELSE IF char \in Quotes THEN MatchBrace(str, i + 1, depth, ~inString, FALSE)
          ELSE IF inString THEN MatchBrace(str, i + 1, depth, inString, FALSE)
          ELSE IF char = "{" THEN MatchBrace(str, i + 1, depth + 1, inString, FALSE)
          ELSE IF char = "}"
            THEN IF depth - 1 = 0 THEN i
                 ELSE MatchBrace(str, i + 1, depth - 1, inString, FALSE)
          ELSE MatchBrace(str, i + 1, depth, inString, FALSE)

findMatchingBrace(str, startIndex) == MatchBrace(str, startIndex, 0, FALSE, FALSE)

\* The texts each scanner is called on.
ScanInputs ==
  { [name |-> "findSlashCommandListEndPosition", text |-> << "=>", "[" >> \o b] :
      b \in SeqsUpTo({ "[", "]", DoubleQuote, SingleQuote, Backslash, "a" }, MaxBody) }
  \cup
  { [name |-> "findTopLevelPositionBeforeSlashCommand",
     text |-> << ";", "{" >> \o b \o << "=>", "[", "a", "]" >>] :
      b \in SeqsUpTo({ "{", "}", DoubleQuote, ";", "a" }, MaxBody) }
  \cup
  { [name |-> "findMatchingBrace", text |-> << "{" >> \o b] :
      b \in SeqsUpTo({ "{", "}", DoubleQuote, SingleQuote, Backslash, "a" }, MaxBody) }

InitScan ==
  /\ ToolInit
  /\ kind = "npm"
  /\ disk = NoDisk
  /\ rf = NoReplace
  /\ runs = NoRuns
  /\ \E in \in ScanInputs :
       fcall = [name |-> in.name, pc |-> "call", text |-> in.text, ret |-> -1]

ScanListEnd ==
  /\ fcall.name = "findSlashCommandListEndPosition" /\ fcall.pc = "call"
  /\ fcall' = [fcall EXCEPT !.pc = "done",
                            !.ret = findSlashCommandListEndPosition(fcall.text)]
  /\ UNCHANGED << tool, disk, rf, runs >>

ScanTopLevel ==
  /\ fcall.name = "findTopLevelPositionBeforeSlashCommand" /\ fcall.pc = "call"
  /\ fcall' = [fcall EXCEPT !.pc = "done",
                            !.ret = findTopLevelPositionBeforeSlashCommand(fcall.text)]
  /\ UNCHANGED << tool, disk, rf, runs >>

ScanMatchingBrace ==
  /\ fcall.name = "findMatchingBrace" /\ fcall.pc = "call"
  /\ fcall' = [fcall EXCEPT !.pc = "done", !.ret = findMatchingBrace(fcall.text, 0)]
  /\ UNCHANGED << tool, disk, rf, runs >>

NextScan ==
  \/ ScanListEnd
  \/ ScanTopLevel
  \/ ScanMatchingBrace

SpecScan == InitScan /\ [][NextScan]_vars

-----------------------------------------------------------------------------
\* The anchor lookups called on their own.  A text is a sequence of
\* fragments; a pattern is the set of fragments it matches.

\* text.match(pattern).index, and the index of the last of
\* text.matchAll(pattern); -1 when there is no match.
MatchIndex(text, pattern, takeLast) ==
  LET hits == { i \in 1..Len(text) : text[i] \in pattern }
  IN IF hits = {} THEN -1
     ELSE (CHOOSE i \in hits : \A j \in hits : IF takeLast THEN j <= i ELSE i <= j) - 1

NoMatch == [strategy |-> 0, index |-> -1]

\* A chain of patterns tried from the k-th on (the result of a lookup that
\* takes the last pattern of the chain that matches).
RECURSIVE FirstMatch_Broadest(_, _, _, _)
FirstMatch_Broadest(text, chain, k, takeLast) ==
  IF k > Len(chain) THEN NoMatch
  ELSE LET later == FirstMatch_Broadest(text, chain, k + 1, takeLast)
       IN IF later.strategy # 0 THEN later
          ELSE IF MatchIndex(text, chain[k], takeLast) # -1
            THEN [strategy |-> k, index |-> MatchIndex(text, chain[k], takeLast)]
          ELSE NoMatch

\* A chain of patterns tried in order from the k-th on, until one matches:
\*   for (const pattern of patterns) { match = ...; if (match) break; }
\* and the nested if (!match) { ...fallback... } of the lookups.
RECURSIVE FirstMatch(_, _, _, _)
FirstMatch(text, chain, k, takeLast) ==
  IF k > Len(chain) THEN NoMatch
  ELSE IF MatchIndex(text, chain[k], takeLast) # -1
    THEN [strategy |-> k, index |-> MatchIndex(text, chain[k], takeLast)]
  ELSE FirstMatch(text, chain, k + 1, takeLast)

\* getThemesLocation, the switch statement: the pattern with case "light",
\* the same pattern for each of themeCases, then any switch with a string
\* case.
SwitchFragments ==
  { "switch light", "switch dark", "switch auto", "switch theme", "switch other" }

SwitchChain ==
  << { "switch light" }, { "switch light" }, { "switch dark" }, { "switch auto" },
     { "switch theme" }, SwitchFragments >>

getThemesSwitchMatch(oldFile) == FirstMatch(oldFile, SwitchChain, 1, FALSE)

\* getIgnoreMaxSubscriptionLocation: subscriptionPhrases, then costPatterns.
PhraseChain ==
  << { "subscription, no need to monitor cost" },
     { },
     { "with your subscription" },
     { "subscription plan" },
     { "premium subscription" },
     { "pro subscription" },
     { "max subscription" },
     { "subscription, no need to monitor cost", "Subscription Cost" },
     { "cost of subscription" },
     { "subscription, no need to monitor cost", "Monitor your cost" },
     { "subscription, no need to monitor cost" } >>

\* ifPatterns: if(f()), the same with white space, the negated call, the call
\* with parameters.
IfChain ==
  << { "if(f())" },
     { "if(f())", "if (f())" },
     { "if(!f())" },
     { "if(f())", "if(f(x))" } >>

\* The window before the phrase is 100 characters long.
LookBack == 100

getIgnoreMaxSubscriptionLocation(oldFile) ==
  LET phrase == FirstMatch(oldFile, PhraseChain, 1, FALSE)
      windowStart == Max(0, phrase.index - LookBack)
      window == Slice(oldFile, windowStart, phrase.index)
      found == FirstMatch(window, IfChain, 1, TRUE)
  IN IF phrase.index = -1 \/ found.index = -1
       THEN [phrase |-> phrase.strategy, strategy |-> found.strategy, index |-> -1]
       ELSE [phrase |-> phrase.strategy, strategy |-> found.strategy,
             index |-> windowStart + found.index]

\* getToolFetchingUseMemoLocation on the chunk after bodyStart: the exact
\* pattern, useMemo with tools in its dependency array, the same after
\* let x=R., the structural search.
UseMemoChain ==
  << { "let o=R.useMemo(()=>f(c),[c])" },
     { "useMemo(x,[tools])", "let o=R.useMemo(x,[tools])" },
     { "let o=R.useMemo(x,[tools])" },
     { "let o=R.useMemo(()=>f(permission)" } >>

getToolFetchingUseMemoLocation(chunk) == FirstMatch(chunk, UseMemoChain, 1, FALSE)

LookupInputs ==
  { [name |-> "getThemesLocation", text |-> t] :
      t \in SeqsUpTo(SwitchFragments \cup { "code" }, MaxBody) }
  \cup
  { [name |-> "getIgnoreMaxSubscriptionLocation", text |-> t] :
      t \in SeqsUpTo({ "subscription, no need to monitor cost", "with your subscription",
                       "Monitor your cost", "if(f())", "if (f())", "if(f(x))" }, MaxBody) }
  \cup
  { [name |-> "getToolFetchingUseMemoLocation", text |-> t] :
      t \in SeqsUpTo({ "let o=R.useMemo(()=>f(c),[c])", "useMemo(x,[tools])",
                       "let o=R.useMemo(x,[tools])",
                       "let o=R.useMemo(()=>f(permission)", "code" }, MaxBody) }

InitLookup ==
  /\ ToolInit
  /\ kind = "npm"
  /\ disk = NoDisk
  /\ rf = NoReplace
  /\ runs = NoRuns
  /\ \E in \in LookupInputs :
       fcall = [name |-> in.name, pc |-> "call", text |-> in.text, ret |-> NoMatch]

LookupThemes ==
  /\ fcall.name = "getThemesLocation" /\ fcall.pc = "call"
  /\ fcall' = [fcall EXCEPT !.pc = "done", !.ret = getThemesSwitchMatch(fcall.text)]
  /\ UNCHANGED << tool, disk, rf, runs >>

LookupIgnoreMax ==
  /\ fcall.name = "getIgnoreMaxSubscriptionLocation" /\ fcall.pc = "call"
  /\ fcall' = [fcall EXCEPT !.pc = "done",
                            !.ret = getIgnoreMaxSubscriptionLocation(fcall.text)]
  /\ UNCHANGED << tool, disk, rf, runs >>

LookupUseMemo ==
  /\ fcall.name = "getToolFetchingUseMemoLocation" /\ fcall.pc = "call"
  /\ fcall' = [fcall EXCEPT !.pc = "done",
                            !.ret = getToolFetchingUseMemoLocation(fcall.text)]
  /\ UNCHANGED << tool, disk, rf, runs >>

NextLookup ==
  \/ LookupThemes
  \/ LookupIgnoreMax
  \/ LookupUseMemo

SpecLookup == InitLookup /\ [][NextLookup]_vars

-----------------------------------------------------------------------------
\* The fragments synthesized around a configuration value, character by
\* character ("nl" is a line feed).

\* JSON.stringify of a string, without the quotes around it.
RECURSIVE JsonEscape(_)
JsonEscape(value) ==
  IF value = << >> THEN << >>
  ELSE LET c == Head(value)
       IN (CASE c = DoubleQuote -> << Backslash, DoubleQuote >>
             [] c = Backslash -> << Backslash, Backslash >>
             [] c = "nl" -> << Backslash, "n" >>
             [] OTHER -> << c >>) \o JsonEscape(Tail(value))

\* JSON.stringify(value)
JsonStringify(value) == << DoubleQuote >> \o JsonEscape(value) \o << DoubleQuote >>

\* writeThemes: `case"${theme.id}":return${JSON.stringify(theme.colors)};\n`
CaseLabelFragment(id) == << "case", DoubleQuote >> \o id \o << DoubleQuote, ":return" >>

\* writeToolsetFieldToAppState: `,toolset:${JSON.stringify(defaultToolset)}`
ToolsetFieldFragment(defaultToolset) == << ",toolset:" >> \o JsonStringify(defaultToolset)

ConfigValues == SeqsUpTo({ "a", "n", DoubleQuote, Backslash, "nl" }, MaxBody) \ { << >> }

InitSynth ==
  /\ ToolInit
  /\ kind = "npm"
  /\ disk = NoDisk
  /\ rf = NoReplace
  /\ runs = NoRuns
  /\ \E f \in { "writeThemes", "writeToolsetFieldToAppState" }, v \in ConfigValues :
       fcall = [name |-> f, pc |-> "synth", value |-> v, ret |-> << >>]

SynthCaseLabel ==
  /\ fcall.name = "writeThemes" /\ fcall.pc = "synth"
  /\ fcall' = [fcall EXCEPT !.pc = "done", !.ret = CaseLabelFragment(fcall.value)]
  /\ UNCHANGED << tool, disk, rf, runs >>

SynthToolsetField ==
  /\ fcall.name = "writeToolsetFieldToAppState" /\ fcall.pc = "synth"
  /\ fcall' = [fcall EXCEPT !.pc = "done", !.ret = ToolsetFieldFragment(fcall.value)]
  /\ UNCHANGED << tool, disk, rf, runs >>

NextSynth ==
  \/ SynthCaseLabel
  \/ SynthToolsetField

SpecSynth == InitSynth /\ [][NextSynth]_vars

-----------------------------------------------------------------------------
\* writeThemes: the theme-id-to-name mapping that replaces the mapping object
\* of the bundle, as the sequence of its tokens.

RECURSIVE EntriesText(_)
EntriesText(obj) ==
  IF obj = << >> THEN << >>
  ELSE << DoubleQuote, Head(obj)[1], DoubleQuote, ":",
          DoubleQuote, Head(obj)[2], DoubleQuote >>
       \o (IF Len(obj) > 1 THEN << "," >> ELSE << >>)
       \o EntriesText(Tail(obj))

\* 'return' + JSON.stringify(Object.fromEntries(themes.map(theme =>
\* [theme.id, theme.name])))
ThemeMapFragment(themes) ==
  << "return", "{" >>
  \o EntriesText(ObjectFromEntries([i \in 1..Len(themes) |->
                                      << themes[i].id, themes[i].name >>]))
  \o << "}" >>

ThemeIds == { "dark", "light", "1", "2" }
ThemeNames == { "Dark mode", "Light mode" }
ThemeInputs == SeqsUpTo([id : ThemeIds, name : ThemeNames], MaxThemes)

InitMap ==
  /\ ToolInit
  /\ kind = "npm"
  /\ disk = NoDisk
  /\ rf = NoReplace
  /\ runs = NoRuns
  /\ \E ts \in ThemeInputs :
       fcall = [name |-> "writeThemes", pc |-> "map", themes |-> ts, ret |-> << >>]

SynthThemeMap ==
  /\ fcall.name = "writeThemes" /\ fcall.pc = "map"
  /\ fcall' = [fcall EXCEPT !.pc = "done", !.ret = ThemeMapFragment(fcall.themes)]
  /\ UNCHANGED << tool, disk, rf, runs >>

NextMap == SynthThemeMap

SpecMap == InitMap /\ [][NextMap]_vars

-----------------------------------------------------------------------------
\* The interactive UI and the configuration file: App's state and effects,
\* readConfigFile, updateConfigFile and saveConfig with the module-level
\* lastConfig.  A configuration is the record of its settings (the list of
\* theme names) and its changesApplied flag; configuration objects live in a
\* heap because lastConfig and saveConfig's parameter are references.  The
\* file is the sequence of its tokens: fs.writeFile opens it with truncation
\* and then writes its data at offset 0, two steps of the thread pool that
\* calls in flight interleave freely.

\* Largest number of updateConfigFile calls issued while the UI runs.
MaxCalls == 2

DEFAULT_SETTINGS == << "dark" >>

SettingsValues == { << "dark" >>, << "dark", "mine" >>, << "mine" >> }

ConfigRecords == [settings : SettingsValues, changesApplied : BOOLEAN]

\* JSON.stringify(config, null, 2)
StringifyConfig(cfg) ==
  << "{", "settings:" >> \o cfg.settings
  \o << "changesApplied:", IF cfg.changesApplied THEN "true" ELSE "false", "}" >>

NoConfig == [settings |-> << >>, changesApplied |-> FALSE]

\* { ...config, ...JSON.parse(content) }; NoConfig when JSON.parse throws.
ParseConfig(text) ==
  IF \E c \in ConfigRecords : StringifyConfig(c) = text
    THEN CHOOSE c \in ConfigRecords : StringifyConfig(c) = text
    ELSE NoConfig

\* A write of data at offset 0 of a file that holds text.
WriteAtStart(text, data) ==
  IF Len(data) >= Len(text) THEN data
  ELSE data \o SubSeq(text, Len(data) + 1, Len(text))

\* updateSettings(updateFn) with newSettings the edited copy of the
\* config.settings its closure holds: setConfig, then updateConfigFile up to
\* its first await (updateFn(lastConfig) and the call of saveConfig).
updateSettings(f, newSettings) ==
  LET obj == [settings |-> newSettings, changesApplied |-> FALSE]
  IN [f EXCEPT !.config = newSettings,
               !.heap[f.lastConfig] = obj,
               !.calls = Append(f.calls,
                   [pc |-> "ensureConfigDir", obj |-> f.lastConfig,
                    data |-> << >>, produced |-> StringifyConfig(obj),
                    overlaps |-> \E k \in 1..Len(f.calls) : f.calls[k].pc # "done"])]

\* The configuration file holds the user's saved configuration, startupCheck
\* has read it into lastConfig, App is about to be mounted.
InitApp ==
  /\ ToolInit
  /\ kind = "npm"
  /\ disk = NoDisk
  /\ rf = NoReplace
  /\ runs = NoRuns
  /\ \E saved \in ConfigRecords, wasUpdated \in BOOLEAN :
       fcall = [name |-> "App", pc |-> "mount",
                saved |-> saved, wasUpdated |-> wasUpdated, edits |-> 0,
                file |-> StringifyConfig(saved),
                heap |-> [startup |-> saved, loaded |-> NoConfig],
                lastConfig |-> "startup",
                config |-> DEFAULT_SETTINGS,
                load |-> [pc |-> "idle", readConfig |-> NoConfig],
                calls |-> << >>]

\* The effects of the first render, in their order: loadConfig() up to its
\* fs.readFile, and the startup check, whose updateSettings is the callback of
\* the first render (config.settings is the initial state).
AppMount ==
  /\ fcall.name = "App" /\ fcall.pc = "mount"
  /\ LET started == [fcall EXCEPT !.pc = "running", !.load.pc = "readFile"]
     IN fcall' = IF fcall.wasUpdated
                   THEN updateSettings(started, DEFAULT_SETTINGS)
                   ELSE started
  /\ UNCHANGED << tool, disk, rf, runs >>

\* readConfigFile: fs.readFile resolves and the content is parsed.
LoadRead ==
  /\ fcall.name = "App" /\ fcall.load.pc = "readFile"
  /\ LET readConfig == ParseConfig(fcall.file)
     IN fcall' = IF readConfig = NoConfig
                   THEN [fcall EXCEPT !.load.pc = "rejected"]
                   ELSE [fcall EXCEPT !.load.pc = "hasUnappliedSystemPromptChanges",
                                      !.load.readConfig = readConfig]
  /\ UNCHANGED << tool, disk, rf, runs >>

\* readConfigFile: hasUnappliedSystemPromptChanges resolves, lastConfig =
\* readConfig, and loadConfig's setConfig.
LoadFinish ==
  /\ fcall.name = "App" /\ fcall.load.pc = "hasUnappliedSystemPromptChanges"
  /\ \E hasSystemPromptChanges \in BOOLEAN :
       LET readConfig ==
             IF hasSystemPromptChanges
               THEN [fcall.load.readConfig EXCEPT !.changesApplied = FALSE]
               ELSE fcall.load.readConfig
       IN fcall' = [fcall EXCEPT !.load.pc = "done",
                                 !.load.readConfig = readConfig,
                                 !.heap.loaded = readConfig,
                                 !.lastConfig = "loaded",
                                 !.config = readConfig.settings]
  /\ UNCHANGED << tool, disk, rf, runs >>

\* A view edits the settings: updateSettings(updateFn) of the current render.
UserEdit ==
  /\ fcall.name = "App" /\ fcall.pc = "running"
  /\ Len(fcall.calls) < MaxCalls
  /\ \E newSettings \in SettingsValues :
       fcall' = [updateSettings(fcall, newSettings) EXCEPT !.edits = @ + 1]
  /\ UNCHANGED << tool, disk, rf, runs >>

\* saveConfig: ensureConfigDir resolves, JSON.stringify(config) of the object
\* saveConfig was called with, fs.writeFile is called.
SaveStringify ==
  /\ fcall.name = "App"
  /\ \E k \in 1..Len(fcall.calls) :
       /\ fcall.calls[k].pc = "ensureConfigDir"
       /\ fcall' = [fcall EXCEPT !.calls[k].pc = "open",
                                 !.calls[k].data = StringifyConfig(fcall.heap[fcall.calls[k].obj])]
  /\ UNCHANGED << tool, disk, rf, runs >>

\* fs.writeFile: the file is opened for writing and truncated.
SaveOpen ==
  /\ fcall.name = "App"
  /\ \E k \in 1..Len(fcall.calls) :
       /\ fcall.calls[k].pc = "open"
       /\ fcall' = [fcall EXCEPT !.calls[k].pc = "write", !.file = << >>]
  /\ UNCHANGED << tool, disk, rf, runs >>

\* fs.writeFile: the data is written and the promise resolves.
SaveWrite ==
  /\ fcall.name = "App"
  /\ \E k \in 1..Len(fcall.calls) :
       /\ fcall.calls[k].pc = "write"
       /\ fcall' = [fcall EXCEPT !.calls[k].pc = "done",
                                 !.file = WriteAtStart(fcall.file, fcall.calls[k].data)]
  /\ UNCHANGED << tool, disk, rf, runs >>

NextApp ==
  \/ AppMount
  \/ LoadRead
  \/ LoadFinish
  \/ UserEdit
  \/ SaveStringify
  \/ SaveOpen
  \/ SaveWrite

SpecApp == InitApp /\ [][NextApp]_vars

-----------------------------------------------------------------------------
\* syncPrompt and one prompt's markdown file.  The file is the record of its
\* frontmatter (ccVersion, 0 when absent; the variables list; whether the
\* identifiers and identifierMap keys are present) and of its content, which
\* is the default text of a version (<< "default", v >>) or the user's text.
\* A hash is modelled by the content it is the hash of.

NoPromptFile == [exists |-> FALSE, ccVersion |-> 0, variables |-> {},
                 identifiers |-> FALSE, content |-> << >>]

\* reconstructContentFromPieces of the prompt of a version
DefaultContent(v) == << "default", v >>

VariableSets == { {}, { "SETTINGS.preferredName" } }

PromptFiles ==
  { NoPromptFile } \cup
  [exists : { TRUE }, ccVersion : 0..MaxVer, variables : VariableSets,
   identifiers : BOOLEAN,
   content : { DefaultContent(v) : v \in 1..MaxVer } \cup { << "user" >> }]

StringsPrompts == [version : 1..MaxVer, variables : VariableSets]

\* generateMarkdownFromPrompt(prompt)
generateMarkdownFromPrompt(prompt) ==
  [exists |-> TRUE, ccVersion |-> prompt.version, variables |-> prompt.variables,
   identifiers |-> prompt.variables # {}, content |-> DefaultContent(prompt.version)]

\* updateVariables(promptId, newIdentifierMap): the file is written again with
\* the frontmatter name, description, ccVersion and the new variables.
updateVariables(file, newVariables) ==
  [file EXCEPT !.variables = newVariables, !.identifiers = FALSE]

\* syncPrompt(prompt): the action reported and the file left behind; oldHash
\* is getPromptHash(prompt.id, existingFile.ccVersion), Null when the index
\* has no entry.
syncPrompt(file, prompt, oldHash) ==
  IF ~file.exists
    THEN [action |-> "created", file |-> generateMarkdownFromPrompt(prompt)]
  ELSE LET updated == updateVariables(file, prompt.variables)
           isModified == oldHash = Null \/ oldHash # file.content
       IN IF file.ccVersion = 0 \/ file.ccVersion = prompt.version
            THEN [action |-> "skipped", file |-> updated]
          ELSE IF isModified
            THEN [action |-> "conflict", file |-> updated]
          ELSE [action |-> "updated", file |-> generateMarkdownFromPrompt(prompt)]

InitSync ==
  /\ ToolInit
  /\ kind = "npm"
  /\ disk = NoDisk
  /\ rf = NoReplace
  /\ runs = NoRuns
  /\ \E file \in PromptFiles, prompt \in StringsPrompts, indexed \in BOOLEAN :
       fcall = [name |-> "syncPrompt", pc |-> "call", before |-> file,
                file |-> file, prompt |-> prompt,
                oldHash |-> IF indexed /\ file.ccVersion > 0
                              THEN DefaultContent(file.ccVersion) ELSE Null,
                action |-> "none"]

SyncPrompt ==
  /\ fcall.name = "syncPrompt" /\ fcall.pc = "call"
  /\ LET r == syncPrompt(fcall.file, fcall.prompt, fcall.oldHash)
     IN fcall' = [fcall EXCEPT !.pc = "done", !.file = r.file, !.action = r.action]
  /\ UNCHANGED << tool, disk, rf, runs >>

NextSync == SyncPrompt

SpecSync == InitSync /\ [][NextSync]_vars

-----------------------------------------------------------------------------
\* The configuration directory, resolved by the tool (getConfigDir), by the
\* getTweakccBaseDir function that writeConversationTitle injects into the
\* target, and by applyCustomization for the files it saves beside a native
\* installation.  A path is the sequence of its segments.  The environment is
\* the home directory, what is found at ~/.tweakcc ("none", a "dir", a
\* "file", or "noaccess" when it cannot be examined) and XDG_CONFIG_HOME
\* (<< >> when unset or empty).

Threw == << "throws" >>

HomeDirs == { "home1", "home2" }
LegacyStates == { "none", "dir", "file", "noaccess" }
XdgValues == { << >>, << "xdg1" >>, << "xdg2" >> }

\* getConfigDir()
getConfigDir(home, legacy, xdg) ==
  LET legacyDir == << home, ".tweakcc" >>
  IN IF legacy \in { "dir", "file" } THEN legacyDir
     ELSE IF xdg # << >> THEN xdg \o << "tweakcc" >>
     ELSE legacyDir

\* getTweakccBaseDir() of the injected code: dir, or Threw (the stat error
\* that is not ENOENT, or mkdirSync of an undefined dir).
getTweakccBaseDir(home, legacy, xdg) ==
  LET homedirTweakcc == << home, ".tweakcc" >>
      afterStat == IF legacy = "dir" THEN homedirTweakcc ELSE << >>
      dir == IF xdg # << >> THEN xdg \o << "tweakcc" >> ELSE afterStat
  IN IF legacy = "noaccess" \/ dir = << >> THEN Threw ELSE dir

\* applyCustomization: path.join(os.homedir(), '.tweakcc')
tweakccDir(home, legacy, xdg) == << home, ".tweakcc" >>

Resolvers == { "getConfigDir", "getTweakccBaseDir", "applyCustomization" }

Unresolved == << "unresolved" >>

InitDir ==
  /\ ToolInit
  /\ kind = "npm"
  /\ disk = NoDisk
  /\ rf = NoReplace
  /\ runs = NoRuns
  /\ \E home \in HomeDirs, legacy \in LegacyStates, xdg \in XdgValues :
       fcall = [name |-> "configDir", home |-> home, legacy |-> legacy, xdg |-> xdg,
                created |-> {},
                dir |-> [r \in Resolvers |-> Unresolved]]

\* The tool is loaded: CONFIG_DIR = getConfigDir().
ResolveConfigDir ==
  /\ fcall.name = "configDir" /\ fcall.dir["getConfigDir"] = Unresolved
  /\ fcall' = [fcall EXCEPT !.dir["getConfigDir"] =
                              getConfigDir(fcall.home, fcall.legacy, fcall.xdg)]
  /\ UNCHANGED << tool, disk, rf, runs >>

\* The patched target calls getTweakccBaseDir(), which creates the directory
\* it resolves.
ResolveBaseDir ==
  /\ fcall.name = "configDir" /\ fcall.dir["getTweakccBaseDir"] = Unresolved
  /\ LET dir == getTweakccBaseDir(fcall.home, fcall.legacy, fcall.xdg)
     IN fcall' = [fcall EXCEPT !.dir["getTweakccBaseDir"] = dir,
                               !.created = IF dir = Threw THEN @ ELSE @ \cup { dir }]
  /\ UNCHANGED << tool, disk, rf, runs >>

\* applyCustomization saves native-claudejs-orig.js and
\* native-claudejs-patched.js.
ResolveApplyDir ==
  /\ fcall.name = "configDir" /\ fcall.dir["applyCustomization"] = Unresolved
  /\ fcall' = [fcall EXCEPT !.dir["applyCustomization"] =
                              tweakccDir(fcall.home, fcall.legacy, fcall.xdg)]
  /\ UNCHANGED << tool, disk, rf, runs >>

NextDir ==
  \/ ResolveConfigDir
  \/ ResolveBaseDir
  \/ ResolveApplyDir

SpecDir == InitDir /\ [][NextDir]_vars

-----------------------------------------------------------------------------
\* restoreClijsFromBackup and restoreNativeBinaryFromBackup on their own, with
\* the files they touch: the live artifact and the snapshot of the
\* installation (a content, "none" when the file is missing), the index of the
\* hashes of the applied system prompts, and the persisted changesApplied.

RestoreFns == { "restoreClijsFromBackup", "restoreNativeBinaryFromBackup" }

FileContents == { "none", "pristine", "patched", "other" }

PromptIds == { "prompt1", "prompt2" }

\* The early returns: no cliPath; no nativeInstallationPath, or no backup file.
ReturnsFalse(f) ==
  \/ ~f.hasPath
  \/ f.fn = "restoreNativeBinaryFromBackup" /\ f.backup = "none"

\* clearAllAppliedHashes(): the index of applied hashes is emptied.
clearAllAppliedHashes(hashes) == {}

\* The updateFn of the restore functions: config.changesApplied = false.
RestoreUpdateFn_Noop(changesApplied) == changesApplied

RestoreUpdateFn(changesApplied) == FALSE

RestoreFiles(f) ==
  [live |-> f.live, backup |-> f.backup, hashes |-> f.hashes,
   changesApplied |-> f.changesApplied]

InitRestore ==
  /\ ToolInit
  /\ kind = "npm"
  /\ disk = NoDisk
  /\ rf = NoReplace
  /\ runs = NoRuns
  /\ \E f \in RestoreFns, hasPath \in BOOLEAN, l \in FileContents,
        b \in FileContents, hs \in SUBSET PromptIds, ca \in BOOLEAN :
       fcall = [name |-> "restore", fn |-> f, pc |-> "call", hasPath |-> hasPath,
                live |-> l, backup |-> b, hashes |-> hs, changesApplied |-> ca,
                before |-> [live |-> l, backup |-> b, hashes |-> hs,
                            changesApplied |-> ca],
                backupContent |-> "none", ret |-> "none"]

\* The early returns, then checkRestorePermissions([path, backup file]).
RestoreEnter ==
  /\ fcall.name = "restore" /\ fcall.pc = "call"
  /\ \E permOk \in BOOLEAN :
       fcall' = IF ReturnsFalse(fcall)
                  THEN [fcall EXCEPT !.pc = "returned", !.ret = "false"]
                ELSE IF fcall.live = "none" \/ fcall.backup = "none" \/ ~permOk
                  THEN [fcall EXCEPT !.pc = "rejected"]
                ELSE [fcall EXCEPT !.pc = "readFile"]
  /\ UNCHANGED << tool, disk, rf, runs >>

\* const backupContent = await fs.readFile(backup file)
RestoreReadBackup ==
  /\ fcall.name = "restore" /\ fcall.pc = "readFile"
  /\ fcall' = [fcall EXCEPT !.pc = "replace", !.backupContent = fcall.backup]
  /\ UNCHANGED << tool, disk, rf, runs >>

\* replaceFileBreakingHardLinks(path, backupContent, 'restore'): the file is
\* unlinked and written, or the write rejects and leaves no file.
RestoreReplace ==
  /\ fcall.name = "restore" /\ fcall.pc = "replace"
  /\ \E ok \in BOOLEAN :
       fcall' = IF ok THEN [fcall EXCEPT !.pc = "clearHashes",
                                         !.live = fcall.backupContent]
                ELSE [fcall EXCEPT !.pc = "rejected", !.live = "none"]
  /\ UNCHANGED << tool, disk, rf, runs >>

RestoreClearHashes ==
  /\ fcall.name = "restore" /\ fcall.pc = "clearHashes"
  /\ fcall' = [fcall EXCEPT !.pc = "updateConfigFile",
                            !.hashes = clearAllAppliedHashes(fcall.hashes)]
  /\ UNCHANGED << tool, disk, rf, runs >>

\* await updateConfigFile(config => { config.changesApplied = false });
\* return true.
RestoreUpdateConfig ==
  /\ fcall.name = "restore" /\ fcall.pc = "updateConfigFile"
  /\ fcall' = [fcall EXCEPT !.pc = "returned", !.ret = "true",
                            !.changesApplied = RestoreUpdateFn(fcall.changesApplied)]
  /\ UNCHANGED << tool, disk, rf, runs >>

NextRestore ==
  \/ RestoreEnter
  \/ RestoreReadBackup
  \/ RestoreReplace
  \/ RestoreClearHashes
  \/ RestoreUpdateConfig

SpecRestore == InitRestore /\ [][NextRestore]_vars

-----------------------------------------------------------------------------
\* reconstructContentFromPieces: the content of a prompt from its pieces, the
\* identifiers between them (the keys String(labelIndex)) and the identifier
\* map, which is a function from keys to values with "" for a key without a
\* usable entry.  The result is the sequence of the strings concatenated.

IdentifierKeys == { "1", "999" }

MappedValues == { "", "SETTINGS.preferredName", "TODO_TOOL_OBJECT", "MODEL_PLACEHOLDER" }

\* mappedValue.includes('TODO') || mappedValue.includes('PLACEHOLDER')
IsPlaceholder(mappedValue) == mappedValue \in { "TODO_TOOL_OBJECT", "MODEL_PLACEHOLDER" }

\* humanName for the identifier labelIndex
HumanName(labelIndex, identifierMap) ==
  LET mappedValue == identifierMap[labelIndex]
  IN IF mappedValue # ""
       THEN IF mappedValue = "TODO_TOOL_OBJECT" THEN << "[TODO: Define tool object]" >>
            ELSE IF IsPlaceholder(mappedValue) THEN << "[PLACEHOLDER: ", mappedValue, "]" >>
            ELSE << mappedValue >>
       ELSE << "[MISSING_IDENTIFIER: ", labelIndex, "]" >>

RECURSIVE reconstructContentFromPieces(_, _, _)
reconstructContentFromPieces(pieces, identifiers, identifierMap) ==
  IF pieces = << >> THEN << >>
  ELSE << Head(pieces) >>
       \o (IF identifiers # << >>
             THEN HumanName(Head(identifiers), identifierMap) ELSE << >>)
       \o reconstructContentFromPieces(
            Tail(pieces),
            IF identifiers # << >> THEN Tail(identifiers) ELSE << >>,
            identifierMap)

InitPieces ==
  /\ ToolInit
  /\ kind = "npm"
  /\ disk = NoDisk
  /\ rf = NoReplace
  /\ runs = NoRuns
  /\ \E pieces \in SeqsUpTo({ "Start ", " end" }, 2),
        identifiers \in SeqsUpTo(IdentifierKeys, 2),
        mapped \in MappedValues :
       fcall = [name |-> "reconstructContentFromPieces", pc |-> "call",
                pieces |-> pieces, identifiers |-> identifiers,
                identifierMap |-> [k \in IdentifierKeys |->
                                     IF k = "1" THEN mapped ELSE ""],
                ret |-> << >>]

ReconstructContent ==
  /\ fcall.name = "reconstructContentFromPieces" /\ fcall.pc = "call"
  /\ fcall' = [fcall EXCEPT !.pc = "done",
                            !.ret = reconstructContentFromPieces(
                                      fcall.pieces, fcall.identifiers, fcall.identifierMap)]
  /\ UNCHANGED << tool, disk, rf, runs >>

NextPieces == ReconstructContent

SpecPieces == InitPieces /\ [][NextPieces]_vars

-----------------------------------------------------------------------------
\* appendToolsetToShortcutsDisplay on a buffer given as the sequence of its
\* fragments, one of which is the literal "? for shortcuts" with its quotes.

ShortcutsLiteral == "'? for shortcuts'"

ShortcutsWithToolset == "'? for shortcuts [',state.toolset||'undefined',']'"

\* Array.from(oldFile.matchAll(shortcutsPattern)): the indexes of the matches.
ShortcutsMatches(oldFile) == { i \in 1..Len(oldFile) : oldFile[i] = ShortcutsLiteral }

\* oldFile.replace(oldText, newText) with a string oldText: the first
\* occurrence is replaced.
StringReplace(str, oldText, newText) ==
  IF \E i \in 1..Len(str) : str[i] = oldText
    THEN LET first == CHOOSE i \in 1..Len(str) :
                        /\ str[i] = oldText
                        /\ \A j \in 1..(i - 1) : str[j] # oldText
         IN [str EXCEPT ![first] = newText]
    ELSE str

appendToolsetToShortcutsDisplay(oldFile) ==
  IF ShortcutsMatches(oldFile) = {} THEN Null
  ELSE LET match == CHOOSE i \in ShortcutsMatches(oldFile) :
                      \A j \in ShortcutsMatches(oldFile) : j <= i
           oldText == oldFile[match]
           newFile == StringReplace(oldFile, oldText, ShortcutsWithToolset)
       IN IF newFile = oldFile THEN Null ELSE newFile

InitShortcuts ==
  /\ ToolInit
  /\ kind = "npm"
  /\ disk = NoDisk
  /\ rf = NoReplace
  /\ runs = NoRuns
  /\ \E oldFile \in SeqsUpTo({ "a", "b", ShortcutsLiteral }, MaxBody) :
       fcall = [name |-> "appendToolsetToShortcutsDisplay", pc |-> "call",
                oldFile |-> oldFile, ret |-> Null]

AppendToolsetToShortcuts ==
  /\ fcall.name = "appendToolsetToShortcutsDisplay" /\ fcall.pc = "call"
  /\ fcall' = [fcall EXCEPT !.pc = "done",
                            !.ret = appendToolsetToShortcutsDisplay(fcall.oldFile)]
  /\ UNCHANGED << tool, disk, rf, runs >>

NextShortcuts == AppendToolsetToShortcuts

SpecShortcuts == InitShortcuts /\ [][NextShortcuts]_vars

-----------------------------------------------------------------------------
\* Properties

Names(rs) == [i \in 1..Len(rs) |-> rs[i].name]

SuccessNames(rs) == Names(SelectSeq(rs, LAMBDA x : x.success))

\* The registry entries before position idx that the configuration enables.
EnabledBefore(idx, cfg) ==
  SelectSeq(SubSeq(Registry, 1, idx - 1), LAMBDA n : Enabled(n, cfg))

\* The patch functions a registry entry splices.
StepFns(name) ==
  CASE name = "themes" -> {"writeThemes"}
    [] name = "ignore-max-subscription" -> {"writeIgnoreMaxSubscription"}
    [] name = "toolsets" -> Range(ToolsetsSubSteps)
    [] name = "conversation-title" ->
         Range(ConversationTitleSubSteps) \cup {"enableRenameConversationCommand"}
    [] OTHER -> {"writeTaskToolModelSchemaCustomization"}

\* buf transformed by the named registry entries, in the order given.
RECURSIVE Replay(_, _, _)
Replay(buf, names, cfg) ==
  IF names = << >> THEN buf
  ELSE Replay(RunStep(names[1], buf, cfg, FALSE).ret, Tail(names), cfg)

SnapshotCount ==
  (IF Exists(cliBackup) THEN 1 ELSE 0) + (IF Exists(nativeBackup) THEN 1 ELSE 0)

\* startupCheck returns a StartupCheckInfo in this step.
StartupReturns == pc = "startup" /\ pc' \notin {"startup", "idle"}

\* This step is the trackPatch call of an enabled entry whose patch function
\* returns null or throws.
StepFailsNow ==
  /\ pc = "steps" /\ pc' = "steps"
  /\ stepIdx <= Len(Registry)
  /\ stepIdx' # stepIdx
  /\ Enabled(Registry[stepIdx], sessCfg)
  /\ (last'.threw \/ ~Exists(last'.ret))

\* C1: in every apply session the buffer handed to the first transformation
\* is the content of an existing snapshot: the live artifact was restored
\* from it before any step ran.
C1_BufferIsSnapshot ==
  pc = "a_prompts" => (Exists(Snapshot) /\ content = Snapshot /\ live = Snapshot)

\* C2: a failing step does not abort the pipeline: whenever the pipeline has
\* got past position stepIdx - 1 of the registry, every enabled entry before
\* that position has been executed (has its result), failed or not.
C2_NoAbort ==
  stepIdx >= 1 => Names(results) = EnabledBefore(stepIdx, sessCfg)

\* C2 witness: the pipeline ran to its end although one step threw and
\* another returned null before the last step.
C2_Witness ==
  /\ stepIdx > Len(Registry)
  /\ \E i, j \in 1..Len(results) :
       /\ i < Len(results) /\ j < Len(results)
       /\ results[i].error = "thrown"
       /\ results[j].error = "returned null"
  /\ results[Len(results)].success

\* C3: a step that returns null or throws leaves the session buffer as it
\* was and is recorded, under its name, with success = false.
C3_FailedStepLeavesBuffer ==
  [][ StepFailsNow =>
        /\ content' = content
        /\ Len(results') = Len(results) + 1
        /\ results'[Len(results')].name = Registry[stepIdx]
        /\ ~results'[Len(results')].success ]_vars

\* C3 witness: toolsets failed at its third sub-step: its working copy holds
\* the splices of two sub-steps, the session buffer none of them.
C3_Witness ==
  /\ pc = "steps"
  /\ stepIdx = 4
  /\ results # << >>
  /\ results[Len(results)].name = "toolsets"
  /\ results[Len(results)].error = "returned null"
  /\ Len(last.work.edits) = Len(content.edits) + 2
  /\ "writeToolsetFieldToAppState" \notin Range(content.edits)

\* C4: applyCustomization never rejects because a transformation of the
\* buffer failed.
C4_NeverRejectsOnStepFailure == outcome # "stepFailed"

\* The report of a session agrees with its buffer and with the live artifact.
ReportMatchesBuffer ==
  /\ content = Replay(firstBuf, SuccessNames(results), sessCfg)
  /\ \A i \in 1..Len(Registry) :
       (Registry[i] \in Range(SuccessNames(results)))
         <=> (StepFns(Registry[i]) \cap
                (Range(content.edits) \ Range(firstBuf.edits)) # {})
  /\ live = content

C6_SnapshotPristine == ~IsPatched(cliBackup) /\ ~IsPatched(nativeBackup)

\* C7: once a snapshot capture or a restore has failed, no step of that
\* session runs.
C7_GuardianFailureIsFatal ==
  (captureFailed \/ outcome = "restoreFailed") => (stepIdx = 0 /\ pc # "steps")

\* The case of C8: startupCheck returns, having found a snapshot and an
\* installed version other than the one recorded in the config.
VersionChangedNow ==
  /\ StartupReturns
  /\ Exists(Snapshot)
  /\ VersionSource.ver # configFile.ccVersion

ReportsUpdate ==
  /\ info'.wasUpdated
  /\ info'.oldVersion = configFile.ccVersion
  /\ info'.newVersion = VersionSource.ver

\* C8: on a version change startupCheck replaces the old snapshot by a copy
\* of the current installation, records the new version in the config, and
\* returns wasUpdated = true with the old and the new version.
C8_VersionChange ==
  [][ VersionChangedNow =>
        /\ Snapshot' = live
        /\ configFile'.ccVersion = VersionSource.ver
        /\ ReportsUpdate ]_vars

\* C9: when startupCheck returns for a found installation exactly one
\* snapshot exists.
C9_ExactlyOneSnapshot == [][ StartupReturns => SnapshotCount' = 1 ]_vars

\* C10: the live artifact never holds partially written content.
C10_NeverHalfWritten == ~live.partial

\* C11: when the final replacement was cut short between its remove and its
\* write, so that the live artifact is missing while the snapshot exists, a
\* subsequent restore can go ahead and recreate the live artifact: the
\* --restore command gets past startupCheck, and a restore that has been
\* started gets past its permission check.
C11_RestoreRecreatesLive ==
  (~Exists(live) /\ Exists(Snapshot)) =>
    /\ (pc = "startup" /\ mode = "restore") => ENABLED StartupCheck
    /\ (pc = "r_check" /\ op = "restore")
         => ENABLED (RestoreCheck /\ pc' = "w_unlink")

\* C12: when replaceFileBreakingHardLinks has completed, a path that shared
\* the old file's storage still holds the old content, the live path holds
\* the new content, and the new file has the mode the old file had.
C12_ReplaceBreaksLinksKeepsMode ==
  rf.pc = "done" =>
    /\ disk.data[disk.live] = rf.newContent
    /\ rf.linked => disk.data[disk.alias] = "old"
    /\ rf.oldMode # "none" => disk.mode[disk.live] = rf.oldMode

\* C13: when a session has ended in which every executed step failed, the
\* live artifact is identical to the snapshot, which is unpatched, and the
\* user has been told that no customization was applied.
C13_TotalFailure ==
  (outcome = "resolved" /\ results # << >>
     /\ \A i \in 1..Len(results) : ~results[i].success) =>
    /\ Exists(Snapshot) /\ live = Snapshot /\ ~IsPatched(live)
    /\ Notification = "No patches could be applied"

\* C15: a React variable name memoised by getReactVar during one session is
\* never observed by a later session of the same process: whenever a session
\* is running its steps, the memo is empty or is the name found in that
\* session's own buffer.
C15_MemoIsOwnDiscovery ==
  pc = "steps" => reactVarCache \in {0, ReactVarOf(content)}

\* C14: applyCustomization run twice with one configuration on one pristine
\* text, restored in between, produces the same text both times, in one
\* process or in two.
C14_TwiceSameOutput ==
  runs.phase = "done" => runs.out[1] = runs.out[2]

\* C16: every splice lands on the anchor it was located for: the token at
\* the offset used, in the buffer version being spliced, is the anchor's,
\* wherever the anchors lie in the text.
C16_OffsetsValid ==
  fcall.name \in {"writeThemes", "writeTweakccSummaryCheck"} =>
    \A i \in 1..Len(fcall.log) : fcall.log[i].hit = fcall.log[i].anchor

\* The baseline switch(A){case"light":return{text:"rgb(0,0,0)"}}: the match
\* of the switch pattern, which ends at the first closing brace, and the
\* closing brace after it.
Baseline == TextOf(<< "bare" >>, 1, FALSE)

\* The labels of the case clauses of a text, in order.
RECURSIVE CaseLabels(_)
CaseLabels(text) ==
  IF Len(text) < 2 THEN << >>
  ELSE IF text[1] = "case" THEN << text[2] >> \o CaseLabels(Tail(Tail(text)))
  ELSE CaseLabels(Tail(text))

\* What the default clause of a text returns.
DefaultOf(text) ==
  IF IndexOf(text, "default") = -1 THEN "none"
  ELSE TokenAt(text, IndexOf(text, "default") + 1)

\* C19: writeThemes on the baseline text with two themes returns a text whose
\* switch has exactly the two themes' case labels, in the order supplied, and
\* a default that returns the first theme's colors.
C19_BaselineTwoThemes ==
  (/\ fcall.name = "writeThemes"
   /\ fcall.pc = "done"
   /\ fcall.arg = Baseline
   /\ Len(fcall.themes) = 2) =>
     /\ fcall.ret # Null
     /\ CaseLabels(fcall.ret) = fcall.themes
     /\ DefaultOf(fcall.ret) = ColorsOf(fcall.themes[1])

\* The lexical structure of a text: for each character, whether it lies
\* outside every quoted span (a span runs from a quote to the next unescaped
\* quote of the same kind).
RECURSIVE Outside(_, _, _, _)
Outside(text, i, q, esc) ==
  IF i > Len(text) THEN << >>
  ELSE LET c == text[i]
       IN IF q = "none"
            THEN IF c \in Quotes THEN << FALSE >> \o Outside(text, i + 1, c, FALSE)
                 ELSE << TRUE >> \o Outside(text, i + 1, "none", FALSE)
          ELSE IF esc THEN << FALSE >> \o Outside(text, i + 1, q, FALSE)
          ELSE IF c = Backslash THEN << FALSE >> \o Outside(text, i + 1, q, TRUE)
          ELSE IF c = q THEN << FALSE >> \o Outside(text, i + 1, "none", FALSE)
          ELSE << FALSE >> \o Outside(text, i + 1, q, FALSE)

\* The quote kind the text ends in ("none": every quoted span is closed).
RECURSIVE EndsIn(_, _, _, _)
EndsIn(text, i, q, esc) ==
  IF i > Len(text) THEN q
  ELSE LET c == text[i]
       IN IF q = "none" THEN EndsIn(text, i + 1, IF c \in Quotes THEN c ELSE "none", FALSE)
          ELSE IF esc THEN EndsIn(text, i + 1, q, FALSE)
          ELSE IF c = Backslash THEN EndsIn(text, i + 1, q, TRUE)
          ELSE IF c = q THEN EndsIn(text, i + 1, "none", FALSE)
          ELSE EndsIn(text, i + 1, q, FALSE)

\* Every quoted span is closed and no backslash stands outside one.
WellFormed(text) ==
  /\ EndsIn(text, 1, "none", FALSE) = "none"
  /\ \A i \in 1..Len(text) :
       text[i] = Backslash => ~Outside(text, 1, "none", FALSE)[i]

\* The offset of the closer that structurally matches the opener at offset
\* at, -1 when there is none.
RECURSIVE CloserFrom(_, _, _, _, _, _)
CloserFrom(text, out, i, depth, open, close) ==
  IF i > Len(text) THEN -1
  ELSE IF out[i] /\ text[i] = open THEN CloserFrom(text, out, i + 1, depth + 1, open, close)
  ELSE IF out[i] /\ text[i] = close
    THEN IF depth = 1 THEN i - 1 ELSE CloserFrom(text, out, i + 1, depth - 1, open, close)
  ELSE CloserFrom(text, out, i + 1, depth, open, close)

MatchingCloser(text, at, open, close) ==
  CloserFrom(text, Outside(text, 1, "none", FALSE), at + 2, 1, open, close)

\* The offset of the opener of the innermost block around offset at.
RECURSIVE OpenerFrom(_, _, _, _, _, _)
OpenerFrom(text, out, i, depth, open, close) ==
  IF i < 1 THEN -1
  ELSE IF out[i] /\ text[i] = close THEN OpenerFrom(text, out, i - 1, depth + 1, open, close)
  ELSE IF out[i] /\ text[i] = open
    THEN IF depth = 1 THEN i - 1 ELSE OpenerFrom(text, out, i - 1, depth - 1, open, close)
  ELSE OpenerFrom(text, out, i - 1, depth, open, close)

EnclosingOpener(text, at, open, close) ==
  OpenerFrom(text, Outside(text, 1, "none", FALSE), at, 1, open, close)

\* What a scanner has to return on a text.
Expected(name, text) ==
  CASE name = "findSlashCommandListEndPosition" -> MatchingCloser(text, 1, "[", "]")
    [] name = "findMatchingBrace" -> MatchingCloser(text, 0, "{", "}")
    [] OTHER ->
         LET arrayEnd == MatchingCloser(text, IndexOf(text, "=>") + 1, "[", "]")
             brace == EnclosingOpener(text, arrayEnd, "{", "}")
         IN IF arrayEnd = -1 \/ brace = -1 THEN -1
            ELSE WalkToSemicolon(text, brace) + 1

\* C17: on a text whose delimiter pair is balanced, each scanner returns the
\* offset of the structurally matching delimiter, whatever delimiter
\* characters stand inside quoted spans and at any nesting depth.
C17_ScannerFindsMatch ==
  (/\ fcall.name \in { "findSlashCommandListEndPosition",
                       "findTopLevelPositionBeforeSlashCommand",
                       "findMatchingBrace" }
   /\ fcall.pc = "done"
   /\ WellFormed(fcall.text)
   /\ Expected(fcall.name, fcall.text) # -1) =>
     fcall.ret = Expected(fcall.name, fcall.text)

\* The earliest pattern of a chain that has a match in a text (0: none).
Earliest(text, chain) ==
  IF \A k \in 1..Len(chain) : MatchIndex(text, chain[k], FALSE) = -1 THEN 0
  ELSE CHOOSE k \in 1..Len(chain) :
         /\ MatchIndex(text, chain[k], FALSE) # -1
         /\ \A j \in 1..(k - 1) : MatchIndex(text, chain[j], FALSE) = -1

\* The result of a lookup is the candidate of the earliest pattern of the
\* chain that has one.
IsEarliest(text, chain, ret, takeLast) ==
  /\ ret.strategy = Earliest(text, chain)
  /\ ret.strategy # 0 => ret.index = MatchIndex(text, chain[ret.strategy], takeLast)

\* C18: an anchor lookup returns the candidate of the earliest strategy of
\* its chain that yields one, also when a later, broader strategy matches at
\* another place of the text.
C18_EarliestStrategyWins ==
  fcall.pc = "done" =>
    /\ fcall.name = "getThemesLocation" =>
         IsEarliest(fcall.text, SwitchChain, fcall.ret, FALSE)
    /\ fcall.name = "getToolFetchingUseMemoLocation" =>
         IsEarliest(fcall.text, UseMemoChain, fcall.ret, FALSE)
    /\ fcall.name = "getIgnoreMaxSubscriptionLocation" =>
         /\ fcall.ret.phrase = Earliest(fcall.text, PhraseChain)
         /\ fcall.ret.phrase # 0 =>
              LET at == MatchIndex(fcall.text, PhraseChain[fcall.ret.phrase], FALSE)
                  window == Slice(fcall.text, Max(0, at - LookBack), at)
              IN /\ fcall.ret.strategy = Earliest(window, IfChain)
                 /\ fcall.ret.strategy # 0 =>
                      fcall.ret.index = Max(0, at - LookBack)
                        + MatchIndex(window, IfChain[fcall.ret.strategy], TRUE)

\* C18 witness: getThemesLocation has returned the match of the case "light"
\* pattern although the generic switch pattern matches earlier in the text.
C18_Witness ==
  /\ fcall.name = "getThemesLocation"
  /\ fcall.pc = "done"
  /\ fcall.ret.strategy = 1
  /\ MatchIndex(fcall.text, SwitchFragments, FALSE) # fcall.ret.index

\* The double-quoted literal that opens at position i - 1 of a fragment, read
\* as JavaScript reads it from position i on: where it ends (0: it does not
\* end, or a line feed breaks it) and the value it denotes.
RECURSIVE ReadLiteral(_, _, _)
ReadLiteral(frag, i, value) ==
  IF i > Len(frag) \/ frag[i] = "nl" THEN [end |-> 0, value |-> value]
  ELSE IF frag[i] = DoubleQuote THEN [end |-> i, value |-> value]
  ELSE IF frag[i] = Backslash
    THEN IF i + 1 > Len(frag) THEN [end |-> 0, value |-> value]
         ELSE ReadLiteral(frag, i + 2,
                          Append(value, IF frag[i + 1] = "n" THEN "nl" ELSE frag[i + 1]))
  ELSE ReadLiteral(frag, i + 1, Append(value, frag[i]))

\* The position of the last double quote of a fragment.
LastQuote(frag) ==
  CHOOSE i \in 1..Len(frag) :
    frag[i] = DoubleQuote /\ \A j \in (i + 1)..Len(frag) : frag[j] # DoubleQuote

\* C20: a configuration value embedded in a synthesized fragment cannot end
\* the quoted literal around it early: the literal that opens at the
\* fragment's first quote ends at its last quote and denotes the value.
C20_ValuesEscaped ==
  (fcall.name \in { "writeThemes", "writeToolsetFieldToAppState" }
     /\ fcall.pc = "done") =>
    LET open == IndexOf(fcall.ret, DoubleQuote) + 1
        lit == ReadLiteral(fcall.ret, open + 1, << >>)
    IN /\ lit.end = LastQuote(fcall.ret)
       /\ lit.value = fcall.value

\* The keys of a synthesized mapping, in the order in which they are written.
RECURSIVE KeysWritten(_)
KeysWritten(text) ==
  IF Len(text) < 4 THEN << >>
  ELSE IF text[1] = DoubleQuote /\ text[3] = DoubleQuote /\ text[4] = ":"
       THEN << text[2] >> \o KeysWritten(SubSeq(text, 8, Len(text)))
       ELSE KeysWritten(Tail(text))

DistinctIds(themes) ==
  \A i, j \in 1..Len(themes) : themes[i].id = themes[j].id => i = j

\* C21: the entries of the generated theme-id-to-name mapping appear in the
\* order in which the themes were supplied (for a list of themes with
\* distinct ids).
C21_InsertionOrder ==
  (fcall.name = "writeThemes" /\ fcall.pc = "done" /\ DistinctIds(fcall.themes))
  => KeysWritten(fcall.ret) = [i \in 1..Len(fcall.themes) |-> fcall.themes[i].id]

\* C22: the PatchResult list of a session holds exactly one entry for every
\* step that was executed, in the order of execution: handling a registry
\* entry appends one entry under its name when the step is executed and
\* nothing when it is skipped, earlier entries are kept, and the list returned
\* when the session resolves names the executed steps once each, in order.
C22_OneEntryPerExecutedStep ==
  [][ /\ (pc = "steps" /\ pc' = "steps" /\ stepIdx' = stepIdx + 1) =>
           IF Enabled(Registry[stepIdx], sessCfg)
             THEN /\ Len(results') = Len(results) + 1
                  /\ SubSeq(results', 1, Len(results)) = results
                  /\ results'[Len(results')].name = Registry[stepIdx]
             ELSE results' = results
      /\ (outcome # "resolved" /\ outcome' = "resolved") =>
           /\ results' = results
           /\ Names(results) = EnabledBefore(Len(Registry) + 1, sessCfg) ]_vars

\* C22 witness: a session resolved after skipping one registry entry and
\* executing the four others, one of which failed: four entries are returned.
C22_Witness ==
  /\ outcome = "resolved"
  /\ ~Enabled("themes", sessCfg)
  /\ Names(results) = << "ignore-max-subscription", "toolsets",
                         "conversation-title", "task-tool-model-schema" >>
  /\ \E i \in 1..Len(results) : ~results[i].success

\* Every call of updateConfigFile has resolved and the initial load is over.
AppQuiescent ==
  /\ fcall.name = "App" /\ fcall.pc = "running"
  /\ fcall.load.pc \in { "done", "rejected" }
  /\ \A k \in 1..Len(fcall.calls) : fcall.calls[k].pc = "done"

\* C23: starting the UI after an update of the installation keeps the saved
\* settings in the configuration file: as long as the user edits nothing, the
\* file never holds other settings than the saved ones once the initial load
\* and the update-triggered write are over, in whatever order they complete.
C23_SavedSettingsKept ==
  (AppQuiescent /\ fcall.wasUpdated /\ fcall.edits = 0)
  => ParseConfig(fcall.file).settings = fcall.saved.settings

\* C30: when calls of updateConfigFile overlap, the configuration file
\* finally holds the state produced by the last call.
C30_LastCallWins ==
  (/\ AppQuiescent
   /\ fcall.calls # << >>
   /\ \E k \in 1..Len(fcall.calls) : fcall.calls[k].overlaps)
  => fcall.file = fcall.calls[Len(fcall.calls)].produced

\* C24: when the markdown file exists, its recorded ccVersion differs from
\* the version of the new prompt and the user has modified its content,
\* syncPrompt reports 'conflict' and leaves the file as it was.
C24_ConflictLeavesFile ==
  (/\ fcall.name = "syncPrompt" /\ fcall.pc = "done"
   /\ fcall.before.exists
   /\ fcall.before.ccVersion # 0
   /\ fcall.before.ccVersion # fcall.prompt.version
   /\ fcall.before.content # DefaultContent(fcall.before.ccVersion))
  => /\ fcall.action = "conflict"
     /\ fcall.file = fcall.before

\* C25: when the directory ~/.tweakcc exists, every place that resolves the
\* configuration directory resolves ~/.tweakcc, whether XDG_CONFIG_HOME is set
\* or not, and in every environment all the places resolve the same
\* directory.
C25_OneConfigDir ==
  fcall.name = "configDir" =>
    \A r, q \in Resolvers :
      (fcall.dir[r] # Unresolved /\ fcall.dir[q] # Unresolved) =>
        /\ fcall.dir[r] = fcall.dir[q]
        /\ fcall.legacy = "dir" => fcall.dir[r] = << fcall.home, ".tweakcc" >>

RECURSIVE WithUnknown(_, _)
WithUnknown(pieces, identifiers) ==
  IF pieces = << >> THEN << >>
  ELSE << Head(pieces) >>
       \o (IF identifiers # << >> THEN << "UNKNOWN_", Head(identifiers) >> ELSE << >>)
       \o WithUnknown(Tail(pieces),
                      IF identifiers # << >> THEN Tail(identifiers) ELSE << >>)

\* C27: an identifier without an entry in the identifier map is rendered as
\* UNKNOWN_<identifier> between the surrounding pieces: when no identifier has
\* an entry, the content is the pieces with UNKNOWN_<identifier> between them
\* (pieces 'Start ', ' end' and identifier 999 give 'Start UNKNOWN_999 end').
C27_UnknownIdentifier ==
  (/\ fcall.name = "reconstructContentFromPieces" /\ fcall.pc = "done"
   /\ \A i \in 1..Len(fcall.identifiers) :
        fcall.identifierMap[fcall.identifiers[i]] = "")
  => fcall.ret = WithUnknown(fcall.pieces, fcall.identifiers)

\* C28: when the literal occurs more than once in the buffer,
\* appendToolsetToShortcutsDisplay rewrites the last occurrence and no other.
C28_LastOccurrenceRewritten ==
  (/\ fcall.name = "appendToolsetToShortcutsDisplay" /\ fcall.pc = "done"
   /\ Cardinality(ShortcutsMatches(fcall.oldFile)) > 1)
  => LET lastMatch == CHOOSE i \in ShortcutsMatches(fcall.oldFile) :
                        \A j \in ShortcutsMatches(fcall.oldFile) : j <= i
     IN fcall.ret = [fcall.oldFile EXCEPT ![lastMatch] = ShortcutsWithToolset]

\* C29: the persisted changesApplied flag becomes true only through an apply
\* session whose customizations are present in the live artifact: when a
\* session sets the flag, the live artifact is the buffer of that session and
\* holds at least one customization.
C29_AppliedMeansPresent ==
  [][(outcome # "resolved" /\ outcome' = "resolved" /\ configFile'.changesApplied)
       => (live' = content' /\ IsPatched(live'))]_vars

=============================================================================
